---- MODULE Spec2Model ----
(***************************************************************************)
(* Model of the x402 URL shortener: the submission handler                 *)
(* (handleShortenUrl), the URL validator, the payment verifier and the     *)
(* urls table behind UrlStorageService.                                    *)
(***************************************************************************)
EXTENDS Integers, Sequences, FiniteSets, TLC

(* ------------------------------------------------------------------ *)
(* State                                                               *)
(* ------------------------------------------------------------------ *)

VARIABLES
    pc,         \* per submission: "idle", "exists" (awaiting shortCodeExists),
                \* "store" (awaiting storeUrl) or "done"
    req,        \* per submission: the request it handles
    attempts,   \* per submission: the local attempts
    shortCode,  \* per submission: the local shortCode
    resp,       \* per submission: the response sent
    thrown,     \* per submission: the error its catch block received
    calls,      \* per submission: the generator and Storage operations it has called
    urls,       \* the rows of table urls, in insertion order
    lastValidate,   \* the last direct call of UrlValidator.validateUrl and its result
    lastVerify,     \* the last direct call of PaymentHandler.verifyPayment and its result
    lastStorage,    \* the last operation of UrlStorageService called directly, "" if none
    lastGenerate,   \* the last direct call of ShortUrlGenerator and its result
    visits,     \* per redirect request: its position in handleRedirect, its locals
                \* and the response sent
    clicks,     \* the rows of table clicks, in insertion order
    limiter,    \* global.rateLimitStore, the clock, and the last request the rate
                \* limiter handled
    txn,        \* the calls of executeTransaction on one pooled client: the position
                \* of the current call, the client's session and what was committed
    migr        \* the migrations: table schema_migrations, the schema changes that
                \* are committed, and each service instance's call of runMigrations

(* ------------------------------------------------------------------ *)
(* JavaScript values and string helpers                                *)
(* ------------------------------------------------------------------ *)

\* The JavaScript value undefined (an absent property) and SQL NULL.
Undefined == "<undefined>"
Null == "<null>"

\* s[i] as a one-character string.
CharAt(s, i) == SubSeq(s, i, i)

\* String.prototype.startsWith / endsWith.
StartsWith(s, p) == Len(s) >= Len(p) /\ SubSeq(s, 1, Len(p)) = p
EndsWith(s, p) == Len(s) >= Len(p) /\ SubSeq(s, Len(s) - Len(p) + 1, Len(s)) = p

\* n copies of the character c.
RECURSIVE Rep(_, _)
Rep(c, n) ==
    IF n = 0 THEN ""
    ELSE LET half == Rep(c, n \div 2)
         IN  IF n % 2 = 0 THEN half \o half ELSE half \o half \o c

\* String.prototype.trim, for the blank characters the inputs use.
IsBlank(c) == c \in {" ", "\t", "\n"}
RECURSIVE TrimLeft(_)
TrimLeft(s) ==
    IF Len(s) > 0 /\ IsBlank(CharAt(s, 1)) THEN TrimLeft(SubSeq(s, 2, Len(s))) ELSE s
RECURSIVE TrimRight(_)
TrimRight(s) ==
    IF Len(s) > 0 /\ IsBlank(CharAt(s, Len(s)))
    THEN TrimRight(SubSeq(s, 1, Len(s) - 1)) ELSE s
Trim(s) == TrimRight(TrimLeft(s))

\* String.prototype.toLowerCase on ASCII.
LowerChar(c) ==
    CASE c = "A" -> "a" [] c = "B" -> "b" [] c = "C" -> "c" [] c = "D" -> "d"
      [] c = "E" -> "e" [] c = "F" -> "f" [] c = "G" -> "g" [] c = "H" -> "h"
      [] c = "I" -> "i" [] c = "J" -> "j" [] c = "K" -> "k" [] c = "L" -> "l"
      [] c = "M" -> "m" [] c = "N" -> "n" [] c = "O" -> "o" [] c = "P" -> "p"
      [] c = "Q" -> "q" [] c = "R" -> "r" [] c = "S" -> "s" [] c = "T" -> "t"
      [] c = "U" -> "u" [] c = "V" -> "v" [] c = "W" -> "w" [] c = "X" -> "x"
      [] c = "Y" -> "y" [] c = "Z" -> "z" [] OTHER -> c
RECURSIVE ToLowerCase(_)
ToLowerCase(s) ==
    IF Len(s) = 0 THEN "" ELSE LowerChar(CharAt(s, 1)) \o ToLowerCase(SubSeq(s, 2, Len(s)))

(* ------------------------------------------------------------------ *)
(* URL inputs and the WHATWG parser (new URL(...)) on them             *)
(* ------------------------------------------------------------------ *)

UrlPlain == "https://example.com/page"
UrlMessy == "  HTTP://Example.COM:80/a?x=1 "
UrlTooLong == "https://example.com/" \o Rep("a", 2029)
UrlBlank == "   "
UrlUnparsable == "not a url"
UrlFtp == "ftp://example.com/file"
UrlJavascript == "javascript:alert(1)"
UrlLocalhost == "http://localhost:3000/"
UrlLoopback == "http://127.0.0.1/admin"
UrlShortener == "https://www.bit.ly/abc"
UrlLongPath == "https://example.com/" \o Rep("p", 1000)
UrlLongQuery == "https://example.com/?" \o Rep("q", 1000)

UrlData == "data:text/html,hi"
UrlLoopbackTooLong == "http://127.0.0.1/" \o Rep("a", 2040)

\* Inputs at the limits of the length checks and inputs failing several checks.
UrlBlankTooLong == Rep(" ", 2049)
UrlPaddedTooLong == "https://example.com/" \o Rep("a", 900) \o Rep(" ", 1129)
UrlAtLimits ==
    "https://" \o Rep("a", 28) \o ".example.com/" \o Rep("p", 999) \o "?" \o Rep("q", 999)
UrlLongPathAndQuery == "https://example.com/" \o Rep("p", 1000) \o "?" \o Rep("q", 1000)
UrlLocalhostLongPath == "http://localhost/" \o Rep("p", 1000)
UrlLoopbackLongQuery == "http://10.0.0.1/?" \o Rep("q", 1000)
UrlShortenerLongPath == "https://bit.ly/" \o Rep("p", 1000)
UrlFtpLongPath == "ftp://localhost/" \o Rep("p", 1000)
LimitUrls ==
    {UrlBlankTooLong, UrlPaddedTooLong, UrlAtLimits, UrlLongPathAndQuery,
     UrlLocalhostLongPath, UrlLoopbackLongQuery, UrlShortenerLongPath, UrlFtpLongPath}

\* The strings validateUrl is called with: the URLs above and scheme "://" host tail
\* for the schemes, hosts and tails below.
Schemes == {"http", "https", "HTTPS", "ftp", "gopher"}
LocalHosts == {"127.0.0.1", "10.1.2.3", "192.168.0.5", "localhost", "LocalHost"}
V4Hosts ==
    {"127.255.255.254", "10.0.0.1", "172.16.0.1", "172.31.255.255", "192.168.1.1",
     "169.254.169.254", "0.0.0.0", "0.1.2.3", "224.0.0.1", "239.255.255.250",
     "240.0.0.1", "250.1.1.1", "255.255.255.255",
     "8.8.8.8", "11.0.0.1", "172.15.0.1", "172.32.0.1", "192.169.0.1", "223.255.255.255"}
V6Hosts ==
    {"[::1]", "[::]", "[fe80::1]", "[fe90::1]", "[febf::1]", "[fc00::1]", "[fd00::1]",
     "[fd12::1]", "[2001:db8::1]", "[fec0::1]"}
DomainHosts ==
    {"example.com", "bit.ly", "BIT.LY", "www.bit.ly", "notbit.ly", "bit.ly.example.com",
     "t.co", "xt.co", "a.b.tinyurl.com", "goo.gl", "google.com"}
Hosts == LocalHosts \cup V4Hosts \cup V6Hosts \cup DomainHosts
Tails == {"", "/", "/a?x=1", ":8080/p"}
UrlOf(scheme, host, tail) == scheme \o "://" \o host \o tail
UrlInputs ==
    {"", UrlPlain, UrlMessy, UrlTooLong, UrlBlank, UrlUnparsable, UrlFtp, UrlJavascript,
     UrlLocalhost, UrlLoopback, UrlShortener, UrlLongPath, UrlLongQuery, UrlData,
     UrlLoopbackTooLong}
    \cup LimitUrls
    \cup {UrlOf(scheme, host, tail) : scheme \in Schemes, host \in Hosts, tail \in Tails}

\* The url property of the request body: absent, a non-string JSON value, or a string.
BodyUrls ==
    {[type |-> "undefined", str |-> ""], [type |-> "number", str |-> ""],
     [type |-> "string", str |-> ""]}
    \cup {[type |-> "string", str |-> u] :
            u \in {UrlPlain, UrlMessy, UrlTooLong, UrlBlank, UrlUnparsable, UrlFtp,
                   UrlJavascript, UrlData, UrlLocalhost, UrlLoopback, UrlShortener,
                   UrlLongPath, UrlLongQuery}}

ParseFailure == [ok |-> FALSE, protocol |-> "", hostname |-> "", pathname |-> "",
                 search |-> "", href |-> ""]
Parsed(pr, h, pa, se, hr) ==
    [ok |-> TRUE, protocol |-> pr, hostname |-> h, pathname |-> pa, search |-> se,
     href |-> hr]

\* The first index i >= from with s[i] in chars, or 0.
IndexOfAny(s, chars, from) ==
    LET I == {i \in from..Len(s) : CharAt(s, i) \in chars}
    IN  IF I = {} THEN 0 ELSE CHOOSE i \in I : \A j \in I : i <= j

Letters ==
    {"a", "b", "c", "d", "e", "f", "g", "h", "i", "j", "k", "l", "m", "n", "o", "p", "q",
     "r", "s", "t", "u", "v", "w", "x", "y", "z"}
Digits == {"0", "1", "2", "3", "4", "5", "6", "7", "8", "9"}
AllIn(s, chars) == \A i \in 1..Len(s) : CharAt(s, i) \in chars

\* The schemes the URL standard calls special, with their default ports.
SPECIAL_SCHEMES == {"http", "https", "ftp", "ws", "wss", "file"}
DefaultPort(scheme) ==
    CASE scheme \in {"http", "ws"} -> "80"
      [] scheme \in {"https", "wss"} -> "443"
      [] scheme = "ftp" -> "21"
      [] OTHER -> ""

\* s without its leading slashes and backslashes.
RECURSIVE SkipSlashes(_)
SkipSlashes(s) ==
    IF Len(s) > 0 /\ CharAt(s, 1) \in {"/", "\\"} THEN SkipSlashes(SubSeq(s, 2, Len(s)))
    ELSE s

\* new URL(s) without a base, for inputs of the shapes
\*   scheme ":" ["//"] host [":" port] [path] ["?" query]   and   scheme ":" opaque-path
\* with no credentials, no fragment, no dot segments, no character that is
\* percent-encoded, and a host that is a domain, a dotted-decimal IPv4 address or a
\* bracketed IPv6 address in its shortest form. The scheme and the host of a special
\* scheme are lower-cased, a default port is dropped, an empty path of a special scheme
\* is "/", an IPv6 hostname keeps its brackets. A string that is no absolute URL throws.
\* The parser runs in stages, each handing what it has read to the next.

\* Last stage: the path and the query of tail, split at the first "?" (question, 0 if
\* there is none), and the serialized URL.
ParsePathAndQuery(scheme, hasAuthority, host, port, tail, question) ==
    Parsed(scheme \o ":",
           host,
           IF question = 1 \/ tail = ""
           THEN (IF scheme \in SPECIAL_SCHEMES THEN "/" ELSE "")
           ELSE IF question = 0 THEN tail ELSE SubSeq(tail, 1, question - 1),
           IF question = 0 \/ question = Len(tail) THEN ""
           ELSE SubSeq(tail, question, Len(tail)),
           scheme \o ":" \o (IF hasAuthority THEN "//" ELSE "") \o host
               \o (IF port = "" THEN "" ELSE ":" \o port)
               \o (IF (question = 1 \/ tail = "") /\ scheme \in SPECIAL_SCHEMES
                   THEN "/" ELSE "")
               \o tail)

\* The host and the port are checked; a default port is dropped.
ParseHost(scheme, rawHost, rawPort, tail) ==
    IF \/ ~AllIn(ToLowerCase(rawHost),
                 Letters \cup Digits \cup {"-", ".", "_", "[", "]", ":"})
       \/ (scheme \in SPECIAL_SCHEMES \ {"file"} /\ rawHost = "")
       \/ ~(StartsWith(rawHost, "[") <=> EndsWith(rawHost, "]"))
       \/ ~AllIn(rawPort, Digits)
    THEN ParseFailure
    ELSE ParsePathAndQuery(scheme, TRUE,
                           IF scheme \in SPECIAL_SCHEMES THEN ToLowerCase(rawHost)
                           ELSE rawHost,
                           IF rawPort = DefaultPort(scheme) THEN "" ELSE rawPort,
                           tail, IndexOfAny(tail, {"?"}, 1))

\* The authority is split at the colon before the port (portColon, 0 if there is
\* none).
SplitAuthority(scheme, authority, tail, portColon) ==
    ParseHost(scheme,
              IF portColon = 0 THEN authority ELSE SubSeq(authority, 1, portColon - 1),
              IF portColon = 0 THEN ""
              ELSE SubSeq(authority, portColon + 1, Len(authority)),
              tail)

\* What follows the slashes is split where the authority ends (authEnd, 0 if nothing
\* follows it); the port's colon is looked for after the "]" of an IPv6 address.
ParseAuthority(scheme, afterSlashes, authEnd) ==
    SplitAuthority(scheme,
                   IF authEnd = 0 THEN afterSlashes
                   ELSE SubSeq(afterSlashes, 1, authEnd - 1),
                   IF authEnd = 0 THEN ""
                   ELSE SubSeq(afterSlashes, authEnd, Len(afterSlashes)),
                   IndexOfAny(IF authEnd = 0 THEN afterSlashes
                              ELSE SubSeq(afterSlashes, 1, authEnd - 1),
                              {":"},
                              IndexOfAny(IF authEnd = 0 THEN afterSlashes
                                         ELSE SubSeq(afterSlashes, 1, authEnd - 1),
                                         {"]"}, 1) + 1))

\* A special scheme other than file takes what follows any slashes as its authority;
\* another scheme has an authority only after "//", and an opaque path otherwise.
ParseAfterScheme(scheme, rest) ==
    IF \/ CharAt(scheme, 1) \notin Letters
       \/ ~AllIn(scheme, Letters \cup Digits \cup {"+", "-", "."})
    THEN ParseFailure
    ELSE IF scheme \notin SPECIAL_SCHEMES \ {"file"} /\ ~StartsWith(rest, "//")
    THEN ParsePathAndQuery(scheme, FALSE, "", "", rest, IndexOfAny(rest, {"?"}, 1))
    ELSE ParseAuthority(scheme,
                        IF scheme \in SPECIAL_SCHEMES \ {"file"} THEN SkipSlashes(rest)
                        ELSE SubSeq(rest, 3, Len(rest)),
                        IndexOfAny(IF scheme \in SPECIAL_SCHEMES \ {"file"}
                                   THEN SkipSlashes(rest)
                                   ELSE SubSeq(rest, 3, Len(rest)),
                                   IF scheme \in SPECIAL_SCHEMES THEN {"/", "\\", "?"}
                                   ELSE {"/", "?"},
                                   1))

\* The scheme is what precedes the first colon (colon, 0 if there is none).
ParseScheme(s, colon) ==
    IF colon < 2 THEN ParseFailure
    ELSE ParseAfterScheme(ToLowerCase(SubSeq(s, 1, colon - 1)),
                          SubSeq(s, colon + 1, Len(s)))

ParseUrl(s) == ParseScheme(s, IndexOfAny(s, {":"}, 1))

(* ------------------------------------------------------------------ *)
(* UrlValidator                                                        *)
(* ------------------------------------------------------------------ *)

MAX_URL_LENGTH == 2048
ALLOWED_PROTOCOLS == {"http:", "https:"}
\* The list of blocked host names growing with the hosts of the stored URLs.
BLOCKED_HOSTNAMES_Grown ==
    {"localhost", "0.0.0.0", "::1", "::"}
    \cup {ParseUrl(urls[i].original_url).hostname : i \in DOMAIN urls}

BLOCKED_HOSTNAMES == {"localhost", "0.0.0.0", "::1", "::"}
SHORTENER_DOMAINS ==
    {"bit.ly", "tinyurl.com", "short.link", "ow.ly", "t.co", "goo.gl", "is.gd", "buff.ly",
     "adf.ly"}

\* BLOCKED_PATTERNS: the anchored prefixes the regular expressions accept.
BLOCKED_PATTERNS ==
    {"127.", "10.", "192.168.", "169.254.", "0.", "224.", "240."}
    \cup {"172." \o n \o "." :
            n \in {"16", "17", "18", "19", "20", "21", "22", "23", "24", "25", "26", "27",
                   "28", "29", "30", "31"}}

isPrivateOrLocalIP(hostname) ==
    \/ \E p \in BLOCKED_PATTERNS : StartsWith(hostname, p)
    \/ StartsWith(hostname, "::1")
    \/ StartsWith(hostname, "fe80:")
    \/ StartsWith(hostname, "fc00:")
    \/ StartsWith(hostname, "fd00:")

\* The suffix test without the dot that separates the labels.
isShortenerDomain_AnySuffix(hostname) ==
    \E domain \in SHORTENER_DOMAINS : EndsWith(hostname, domain)

isShortenerDomain(hostname) ==
    \E domain \in SHORTENER_DOMAINS :
        hostname = domain \/ EndsWith(hostname, "." \o domain)

Invalid(c, msg) == [isValid |-> FALSE, error |-> msg, code |-> c, normalizedUrl |-> Undefined]
Valid(n) == [isValid |-> TRUE, error |-> Undefined, code |-> Undefined, normalizedUrl |-> n]

\* The security checks looking at the query before the path.
performSecurityChecks_QueryFirst(url) ==
    IF url.protocol = "data:" \/ url.protocol = "javascript:"
    THEN Invalid("UNSAFE_PROTOCOL", "Data and JavaScript URLs are not allowed")
    ELSE IF Len(url.search) > 1000
    THEN Invalid("QUERY_TOO_LONG", "URL query parameters are too long")
    ELSE IF Len(url.pathname) > 1000
    THEN Invalid("PATH_TOO_LONG", "URL path is too long")
    ELSE Valid(Undefined)

performSecurityChecks(url) ==
    IF url.protocol = "data:" \/ url.protocol = "javascript:"
    THEN Invalid("UNSAFE_PROTOCOL", "Data and JavaScript URLs are not allowed")
    ELSE IF Len(url.pathname) > 1000
    THEN Invalid("PATH_TOO_LONG", "URL path is too long")
    ELSE IF Len(url.search) > 1000
    THEN Invalid("QUERY_TOO_LONG", "URL query parameters are too long")
    ELSE Valid(Undefined)

\* validateUrl on a string.
validateUrl(urlString) ==
    IF Len(urlString) > MAX_URL_LENGTH
    THEN Invalid("URL_TOO_LONG", "URL exceeds maximum length of 2048 characters")
    ELSE IF urlString = "" \/ Len(Trim(urlString)) = 0
    THEN Invalid("URL_EMPTY", "URL cannot be empty")
    ELSE LET parsedUrl == ParseUrl(Trim(urlString))
             hostname == ToLowerCase(parsedUrl.hostname)
             securityCheck == performSecurityChecks(parsedUrl)
         IN  IF ~parsedUrl.ok
             THEN Invalid("INVALID_FORMAT", "Invalid URL format")
             ELSE IF parsedUrl.protocol \notin ALLOWED_PROTOCOLS
             THEN Invalid("INVALID_PROTOCOL",
                          "Protocol " \o parsedUrl.protocol
                              \o " not allowed. Only HTTP and HTTPS are supported")
             ELSE IF hostname \in BLOCKED_HOSTNAMES
             THEN Invalid("BLOCKED_HOSTNAME", "Cannot shorten localhost or invalid addresses")
             ELSE IF isPrivateOrLocalIP(hostname)
             THEN Invalid("PRIVATE_IP", "Cannot shorten private or local IP addresses")
             ELSE IF isShortenerDomain(hostname)
             THEN Invalid("SHORTENER_CHAIN",
                          "Cannot shorten URLs from other URL shortening services")
             ELSE IF ~securityCheck.isValid
             THEN securityCheck
             ELSE Valid(parsedUrl.href)

(* ------------------------------------------------------------------ *)
(* Payment claims, the X-PAYMENT header and PaymentHandler              *)
(* ------------------------------------------------------------------ *)

USDC_CONTRACT_ADDRESS == "0x036CbD53842c5426634e7929541eC2318f3dCF7e"
PAYMENT_REQUIREMENTS ==
    [network |-> "base-sepolia", minAmountRequired |-> "1000",
     maxAmountRequired |-> "10000", asset |-> USDC_CONTRACT_ADDRESS]

DigitValue(c) ==
    CASE c = "0" -> 0 [] c = "1" -> 1 [] c = "2" -> 2 [] c = "3" -> 3 [] c = "4" -> 4
      [] c = "5" -> 5 [] c = "6" -> 6 [] c = "7" -> 7 [] c = "8" -> 8 [] c = "9" -> 9
      [] OTHER -> -1

\* The value of the longest prefix of decimal digits of s, given the value acc so far.
RECURSIVE DigitsPrefix(_, _)
DigitsPrefix(s, acc) ==
    IF Len(s) = 0 \/ DigitValue(CharAt(s, 1)) < 0 THEN acc
    ELSE DigitsPrefix(SubSeq(s, 2, Len(s)), 10 * acc + DigitValue(CharAt(s, 1)))

\* parseInt(str, 10): leading blanks are skipped, a sign is read, then the longest
\* prefix of digits; NaN when there is no digit.
parseInt(str) ==
    LET t == TrimLeft(str)
        neg == Len(t) > 0 /\ CharAt(t, 1) = "-"
        body == IF Len(t) > 0 /\ CharAt(t, 1) \in {"-", "+"} THEN SubSeq(t, 2, Len(t)) ELSE t
    IN  IF Len(body) = 0 \/ DigitValue(CharAt(body, 1)) < 0
        THEN [nan |-> TRUE, val |-> 0]
        ELSE [nan |-> FALSE,
              val |-> IF neg THEN 0 - DigitsPrefix(body, 0) ELSE DigitsPrefix(body, 0)]

\* The upper bound taken as exclusive.
NumGreater_Inclusive(a, b) == ~a.nan /\ ~b.nan /\ a.val >= b.val

\* a < b and a > b on numbers that may be NaN: every comparison with NaN is false.
NumLess(a, b) == ~a.nan /\ ~b.nan /\ a.val < b.val
NumGreater(a, b) == ~a.nan /\ ~b.nan /\ a.val > b.val

HexChars ==
    {"0", "1", "2", "3", "4", "5", "6", "7", "8", "9", "a", "b", "c", "d", "e", "f",
     "A", "B", "C", "D", "E", "F"}

\* /^0x[a-fA-F0-9]{n}$/.test(s)
IsHex0x(s, n) ==
    /\ Len(s) = n + 2
    /\ SubSeq(s, 1, 2) = "0x"
    /\ \A i \in 3..Len(s) : CharAt(s, i) \in HexChars

\* A JSON number held by a property of a decoded claim: a value that is truthy and
\* is no string.
JsonNumber == "<number>"
IsString(v) == v \notin {Undefined, Null, JsonNumber}

\* !v for the values a claim's property holds.
Falsy(v) == v \in {Undefined, Null, ""}

\* a || b
OrElse(a, b) == IF Falsy(a) THEN b ELSE a

\* A decoded JSON value as the handler reads it: null, undefined or an object with the
\* claim's properties (an absent property reads as undefined).
JsonValue(ty, tx, payer, amt, asset, net) ==
    [type |-> ty, txHash |-> tx, creatorAddress |-> payer, amount |-> amt,
     asset |-> asset, network |-> net]
JsonNull == JsonValue("null", Undefined, Undefined, Undefined, Undefined, Undefined)
JsonUndefined ==
    JsonValue("undefined", Undefined, Undefined, Undefined, Undefined, Undefined)
Claim(tx, payer, amt, asset, net) == JsonValue("object", tx, payer, amt, asset, net)

Rejected(msg) == [isValid |-> FALSE, error |-> msg, paymentData |-> JsonUndefined]
Approved(d) == [isValid |-> TRUE, error |-> Undefined, paymentData |-> d]

\* PaymentHandler.verifyPayment.
verifyPayment(paymentData) ==
    IF paymentData.type # "object"
    THEN Rejected("No payment data provided")
    ELSE IF \/ Falsy(paymentData.txHash) \/ Falsy(paymentData.creatorAddress)
            \/ Falsy(paymentData.amount) \/ Falsy(paymentData.asset)
            \/ Falsy(paymentData.network)
    THEN Rejected("Missing required payment fields")
    ELSE IF paymentData.network # PAYMENT_REQUIREMENTS.network
    THEN Rejected("Invalid network")
    ELSE IF ~IsString(paymentData.asset)
    THEN Rejected("Payment verification error")   \* asset.toLowerCase throws, caught
    ELSE IF ToLowerCase(paymentData.asset) # ToLowerCase(PAYMENT_REQUIREMENTS.asset)
    THEN Rejected("Invalid asset")
    ELSE LET paymentAmount == parseInt(paymentData.amount)
             minAmount == parseInt(PAYMENT_REQUIREMENTS.minAmountRequired)
             maxAmount == parseInt(PAYMENT_REQUIREMENTS.maxAmountRequired)
         IN  IF NumLess(paymentAmount, minAmount)
             THEN Rejected("Payment amount too low")
             ELSE IF NumGreater(paymentAmount, maxAmount)
             THEN Rejected("Payment amount too high")
             ELSE IF ~IsHex0x(paymentData.txHash, 64)
             THEN Rejected("Invalid transaction hash format")
             ELSE IF ~IsHex0x(paymentData.creatorAddress, 40)
             THEN Rejected("Invalid creator address format")
             ELSE Approved(paymentData)

TxHashA == "0x" \o Rep("a", 64)
PayerA == "0x" \o Rep("b", 40)

ClaimGood == Claim(TxHashA, PayerA, "5000", USDC_CONTRACT_ADDRESS, "base-sepolia")
ClaimUnderpaid == Claim(TxHashA, PayerA, "1", USDC_CONTRACT_ADDRESS, "base-sepolia")
ClaimEmpty == Claim(Undefined, Undefined, Undefined, Undefined, Undefined)

\* The values verifyPayment is called with: null, undefined and the objects whose
\* properties are drawn from the values below (Undefined is an absent property).
AmountInputs ==
    {"999", "1000", "1001", "5000", "9999", "10000", "10001", "0", "-5000", "99999999",
     "abc", "5000abc", "5000.9", "1e4", " 5000", "", Undefined}
AssetInputs ==
    {USDC_CONTRACT_ADDRESS, ToLowerCase(USDC_CONTRACT_ADDRESS), "0xdeadbeef", Undefined,
     JsonNumber}
NetworkInputs == {"base-sepolia", "base", Undefined}
TxHashInputs == {TxHashA, "0x123", Undefined}
PayerInputs == {PayerA, "alice"}
PaymentInputs ==
    {JsonNull, JsonUndefined}
    \cup {Claim(tx, payer, amt, asset, net) :
            tx \in TxHashInputs, payer \in PayerInputs, amt \in AmountInputs,
            asset \in AssetInputs, net \in NetworkInputs}

\* The X-PAYMENT request header: absent, text that is no base64-encoded JSON, the
\* encoding of JSON null, or the encoding of a JSON object.
HeaderAbsent == [kind |-> "absent", data |-> JsonNull]
HeaderGarbage == [kind |-> "garbage", data |-> JsonNull]
HeaderNull == [kind |-> "null", data |-> JsonNull]
HeaderOf(claim) == [kind |-> "object", data |-> claim]

Headers ==
    {HeaderAbsent, HeaderGarbage, HeaderNull}
    \cup {HeaderOf(c) : c \in {ClaimGood, ClaimUnderpaid, ClaimEmpty}}

\* JSON.parse(Buffer.from(headerValue, "base64").toString()), null when it throws.
DecodePaymentHeader(header) == IF header.kind = "object" THEN header.data ELSE JsonNull

(* ------------------------------------------------------------------ *)
(* ShortUrlGenerator                                                   *)
(* ------------------------------------------------------------------ *)

BASE62_CHARS == "abcdefghijklmnopqrstuvwxyzABCDEFGHIJKLMNOPQRSTUVWXYZ0123456789"
CODE_LENGTH == 8
MAX_RETRIES == 10

\* The first n characters of the code for the random bytes:
\* result += BASE62_CHARS[bytes[i] % BASE62_CHARS.length].
RECURSIVE EncodeBytes(_, _)
EncodeBytes(bytes, n) ==
    IF n = 0 THEN ""
    ELSE EncodeBytes(bytes, n - 1)
             \o CharAt(BASE62_CHARS, (bytes[n] % Len(BASE62_CHARS)) + 1)

\* generateRandomCode() when crypto.randomBytes returns bytes.
generateRandomCode(bytes) == EncodeBytes(bytes, CODE_LENGTH)

\* The format check testing the length only.
isValidShortCode_LengthOnly(code) == Len(code) = CODE_LENGTH

isValidShortCode(code) ==
    /\ Len(code) = CODE_LENGTH
    /\ \A i \in 1..Len(code) :
          \E k \in 1..Len(BASE62_CHARS) : CharAt(BASE62_CHARS, k) = CharAt(code, i)

\* The outcome of generateShortCode: the code returned, or an error thrown, after
\* generateRandomCode was called generated times.
Returned(code, n) == [threw |-> FALSE, code |-> code, generated |-> n]
Threw(n) == [threw |-> TRUE, code |-> "", generated |-> n]

\* The while loop of generateShortCode from the given value of attempts, when the
\* calls of generateRandomCode return stream[1], stream[2], ... in turn; existingCodes
\* is a set that is given or not.
RECURSIVE GenerateLoop(_, _, _)
GenerateLoop(existingCodes, stream, n) ==
    IF n < MAX_RETRIES
    THEN IF ~existingCodes.given \/ stream[n + 1] \notin existingCodes.value
         THEN Returned(stream[n + 1], n + 1)
         ELSE GenerateLoop(existingCodes, stream, n + 1)
    ELSE Threw(n)

\* generateShortCode returning its first code unchecked.
generateShortCode_Unchecked(existingCodes, stream) == Returned(stream[1], 1)

generateShortCode(existingCodes, stream) == GenerateLoop(existingCodes, stream, 0)

(* ------------------------------------------------------------------ *)
(* The urls table and the database errors                              *)
(* ------------------------------------------------------------------ *)

\* Short codes the generator can draw (two of the 62^8).
Codes == {"aB3dE5fG", "Zz9yX8wV"}
NoCode == ""

\* undefined query parameters are stored as NULL.
SqlParam(v) == IF v = Undefined THEN Null ELSE v

\* Column expires_at holds a time (a positive number) or NULL, written 0.
NoExpiry == 0

\* A row of urls as INSERT ... RETURNING * builds it: id, click_count and is_active
\* take their column defaults, expires_at is NULL when data has no expiresAt.
NewRow(table, data) ==
    [id |-> Len(table) + 1, short_code |-> data.shortCode,
     original_url |-> data.originalUrl,
     payment_tx_hash |-> SqlParam(data.paymentTxHash),
     creator_address |-> SqlParam(data.creatorAddress),
     expires_at |-> IF "expiresAt" \in DOMAIN data THEN data.expiresAt ELSE NoExpiry,
     click_count |-> 0, is_active |-> TRUE]

\* A property of UpdateUrlData: given with a value, or undefined.
Given(v) == [given |-> TRUE, value |-> v]
NotGiven(v) == [given |-> FALSE, value |-> v]

\* updateUrl writing a fresh row in place of the one it updates.
UpdateUrlRows_Recreate(table, code, data) ==
    [i \in DOMAIN table |->
        IF table[i].short_code = code
        THEN [table[i] EXCEPT
                !.original_url = IF data.originalUrl.given THEN data.originalUrl.value ELSE @,
                !.is_active = IF data.isActive.given THEN data.isActive.value ELSE @,
                !.expires_at = IF data.expiresAt.given THEN data.expiresAt.value ELSE @,
                !.click_count = 0]
        ELSE table[i]]

\* UPDATE urls SET <the given fields> WHERE short_code = $n; with no field given
\* updateUrl throws before it runs a query.
UpdateUrlRows(table, code, data) ==
    IF ~data.originalUrl.given /\ ~data.isActive.given /\ ~data.expiresAt.given
    THEN table
    ELSE [i \in DOMAIN table |->
            IF table[i].short_code = code
            THEN [table[i] EXCEPT
                    !.original_url =
                        IF data.originalUrl.given THEN data.originalUrl.value ELSE @,
                    !.is_active = IF data.isActive.given THEN data.isActive.value ELSE @,
                    !.expires_at =
                        IF data.expiresAt.given THEN data.expiresAt.value ELSE @]
            ELSE table[i]]

\* UPDATE urls SET click_count = click_count + 1
\* WHERE short_code = $1 AND is_active = true, committed.
\* The update writing a constant instead of adding to the stored count.
IncrementRows_Overwrite(table, code) ==
    [i \in DOMAIN table |->
        IF table[i].short_code = code /\ table[i].is_active
        THEN [table[i] EXCEPT !.click_count = 1]
        ELSE table[i]]

IncrementRows(table, code) ==
    [i \in DOMAIN table |->
        IF table[i].short_code = code /\ table[i].is_active
        THEN [table[i] EXCEPT !.click_count = @ + 1]
        ELSE table[i]]

\* deleteUrl removing the row.
DeleteRows_Physical(table, code) == SelectSeq(table, LAMBDA row : row.short_code # code)

\* UPDATE urls SET is_active = false WHERE short_code = $1
DeleteRows(table, code) ==
    [i \in DOMAIN table |->
        IF table[i].short_code = code THEN [table[i] EXCEPT !.is_active = FALSE]
        ELSE table[i]]

\* UPDATE urls SET is_active = false WHERE expires_at IS NOT NULL
\* AND expires_at < CURRENT_TIMESTAMP AND is_active = true
CleanupRows(table, now) ==
    [i \in DOMAIN table |->
        IF table[i].expires_at # NoExpiry /\ table[i].expires_at < now /\ table[i].is_active
        THEN [table[i] EXCEPT !.is_active = FALSE]
        ELSE table[i]]

\* The existence check looking at active rows only.
ShortCodeExists_ActiveOnly(table, code) ==
    \E i \in DOMAIN table : table[i].short_code = code /\ table[i].is_active

\* SELECT 1 FROM urls WHERE short_code = $1 LIMIT 1 returns a row.
ShortCodeExists(table, code) == \E i \in DOMAIN table : table[i].short_code = code

\* The table without the UNIQUE constraint on short_code.
UniqueViolation_Unconstrained(table, code) == FALSE

\* The UNIQUE constraint urls_short_code_key rejects the row.
UniqueViolation(table, code) == \E i \in DOMAIN table : table[i].short_code = code

\* The error PostgreSQL raises for the INSERT, code "" when it raises none.
PgError(c, k) == [code |-> c, constraint |-> k]
NoPgError == PgError("", Undefined)
ConnectionLost == PgError("08006", Undefined)
InsertError(table, row) ==
    IF \/ Len(row.short_code) > 10
       \/ row.payment_tx_hash # Null /\ Len(row.payment_tx_hash) > 66
       \/ row.creator_address # Null /\ Len(row.creator_address) > 42
    THEN PgError("22001", Undefined)
    ELSE IF UniqueViolation(table, row.short_code)
    THEN PgError("23505", "urls_short_code_key")
    ELSE NoPgError

\* A JavaScript error object: its class, its code, the pg constraint property, the
\* field of a UniqueConstraintError and the pg code at the root of its originalError chain.
ErrorObject(n, c, k, f, root) ==
    [name |-> n, code |-> c, constraint |-> k, field |-> f, cause |-> root]
NoError == ErrorObject("none", Undefined, Undefined, Undefined, "")
TypeError == ErrorObject("TypeError", Undefined, Undefined, Undefined, "")
GenerationError == ErrorObject("Error", Undefined, Undefined, Undefined, "")

\* executeQuery's catch: a pg error becomes a QueryError wrapping it.
executeQueryError(pgError) ==
    ErrorObject("QueryError", "QUERY_ERROR", Undefined, Undefined, pgError.code)

\* storeUrl's catch, on the error executeQuery threw.
storeUrlError(error) ==
    IF error.code = "23505" /\ error.constraint = "urls_short_code_key"
    THEN ErrorObject("UniqueConstraintError", "UNIQUE_CONSTRAINT", Undefined, "short_code",
                     error.cause)
    ELSE ErrorObject("DatabaseError", Undefined, Undefined, Undefined, error.cause)

\* shortCodeExists' catch.
shortCodeExistsError(error) ==
    ErrorObject("DatabaseError", Undefined, Undefined, Undefined, error.cause)

(* ------------------------------------------------------------------ *)
(* handleShortenUrl                                                    *)
(* ------------------------------------------------------------------ *)

maxAttempts == 10

\* Number of submissions in flight together.
NSubs == 2
Subs == 1..NSubs

Requests == [url : BodyUrls, header : Headers]
RaceRequests ==
    [url : {[type |-> "string", str |-> UrlPlain]},
     header : {HeaderOf(ClaimGood), HeaderAbsent}]
NoRequest == [url |-> [type |-> "undefined", str |-> ""], header |-> HeaderAbsent]

Response(st, ok, err, c, sc, ou, tx) ==
    [status |-> st, success |-> ok, error |-> err, code |-> c, shortCode |-> sc,
     originalUrl |-> ou, paymentTxHash |-> tx]
NoResponse == Response(0, FALSE, "", "", NoCode, "", "")
ErrorResponse(st, err, c) == Response(st, FALSE, err, c, NoCode, "", "")
InternalError == ErrorResponse(500, "Internal server error", "INTERNAL_ERROR")

vars ==
    <<pc, req, attempts, shortCode, resp, thrown, calls, urls, lastValidate, lastVerify,
      lastStorage, lastGenerate, visits, clicks, limiter, txn, migr>>

\* The state of the redirect route and of the middleware.
routeVars == <<visits, clicks>>
serviceVars == <<routeVars, limiter, txn, migr>>

\* What the handler reads and writes, and what the direct calls record.
handlerVars == <<pc, req, attempts, shortCode, resp, thrown, calls, urls>>
callVars == <<lastValidate, lastVerify, lastStorage, lastGenerate>>

\* The inputs of the generator: the bytes crypto.randomBytes returns, the strings
\* isValidShortCode is asked about, the set of existing codes (given or not) and the
\* codes that successive calls of generateRandomCode return.
ByteValues == {61, 62, 255}
ByteInputs == [1..CODE_LENGTH -> ByteValues]
CodeInputs ==
    Codes \cup {"", "aB3dE5f", "aB3dE5fG9", "aB3dE5fGaB3dE5fG", "aB3dE5f-", "aB3dE5f_",
                "aB3 E5fG", "........", "aB3dE5f/", "aB3dE5f!"}
ExistingInputs == {NotGiven({})} \cup {Given(S) : S \in SUBSET Codes}
StreamInputs == [1..MAX_RETRIES -> Codes]

GenerateRecord(op, bytes, existingCodes, stream, outcome, valid) ==
    [called |-> TRUE, op |-> op, bytes |-> bytes, existingCodes |-> existingCodes,
     stream |-> stream, outcome |-> outcome, valid |-> valid]
NoGenerateCall ==
    [called |-> FALSE, op |-> "", bytes |-> <<>>, existingCodes |-> NotGiven({}),
     stream |-> <<>>, outcome |-> Returned("", 0), valid |-> FALSE]

NoValidateCall ==
    [called |-> FALSE, urlString |-> "", result |-> Invalid("", ""), repeated |-> FALSE,
     second |-> Invalid("", "")]
NoVerifyCall == [called |-> FALSE, paymentData |-> JsonUndefined, result |-> Rejected("")]

\* !url
MissingUrl(url) == url.type = "undefined" \/ (url.type = "string" /\ url.str = "")

\* UrlValidator.validateUrl(url) throws: a value without trim() is no string.
ValidateThrows(url) == url.type # "string"

\* The handler ignoring the validation result.
ValidationRejects_Ignored(validationResult) == FALSE

\* !validationResult.isValid
ValidationRejects(validationResult) == ~validationResult.isValid

\* The handler without its check for an absent header.
HeaderMissing_Unchecked(header) == FALSE

\* !paymentHeader
HeaderMissing(header) == header.kind = "absent"

\* The handler without its check of the decoded header.
PaymentDataMissing_Unchecked(paymentData) == FALSE

\* !paymentData
PaymentDataMissing(paymentData) == paymentData.type # "object"

\* The loop with its budget off by one.
LoopContinues_OneMore(exists, n) == exists /\ n < maxAttempts + 1

\* The condition of the do-while loop.
LoopContinues(exists, n) == exists /\ n < maxAttempts

\* attempts >= maxAttempts after the loop.
BudgetSpent(n) == n >= maxAttempts

\* The argument of storeUrl carrying the URL as it was submitted.
CreateUrlData_Raw(r, code) ==
    [shortCode |-> code,
     originalUrl |-> r.url.str,
     paymentTxHash |-> DecodePaymentHeader(r.header).txHash,
     creatorAddress |-> DecodePaymentHeader(r.header).creatorAddress]

\* The argument of storeUrl.
CreateUrlData(r, code) ==
    [shortCode |-> code,
     originalUrl |-> OrElse(validateUrl(r.url.str).normalizedUrl, r.url.str),
     paymentTxHash |-> DecodePaymentHeader(r.header).txHash,
     creatorAddress |-> DecodePaymentHeader(r.header).creatorAddress]

\* The success response without the code the record was stored under.
SuccessResponse_Unkeyed(r, code) ==
    Response(200, TRUE, "", "", NoCode,
             OrElse(validateUrl(r.url.str).normalizedUrl, r.url.str),
             OrElse(DecodePaymentHeader(r.header).txHash, ""))

SuccessResponse(r, code) ==
    Response(200, TRUE, "", "", code,
             OrElse(validateUrl(r.url.str).normalizedUrl, r.url.str),
             OrElse(DecodePaymentHeader(r.header).txHash, ""))

\* The handler returns: its locals are gone, the response is sent.
Finish(s, response, error) ==
    /\ pc' = [pc EXCEPT ![s] = "done"]
    /\ resp' = [resp EXCEPT ![s] = response]
    /\ thrown' = [thrown EXCEPT ![s] = error]
    /\ attempts' = [attempts EXCEPT ![s] = 0]
    /\ shortCode' = [shortCode EXCEPT ![s] = NoCode]

\* The catch block retrying instead of answering.
HandlerCatch_Retried(s, error) ==
    /\ thrown' = [thrown EXCEPT ![s] = error]
    /\ \E c \in Codes : shortCode' = [shortCode EXCEPT ![s] = c]
    /\ attempts' = [attempts EXCEPT ![s] = @ + 1]
    /\ pc' = [pc EXCEPT ![s] = "exists"]
    /\ calls' = [calls EXCEPT ![s] = @ \cup {"generateShortCode", "shortCodeExists"}]
    /\ UNCHANGED <<resp, urls>>

\* The catch block of the handler on an error a Storage call threw: the 500 response,
\* and no further call.
HandlerCatch(s, error) ==
    /\ Finish(s, InternalError, error)
    /\ UNCHANGED <<calls, urls>>

\* One pass of the loop body up to its await: a fresh candidate, attempts++, and the
\* call of shortCodeExists.
Generate(s) ==
    /\ \E c \in Codes : shortCode' = [shortCode EXCEPT ![s] = c]
    /\ attempts' = [attempts EXCEPT ![s] = @ + 1]
    /\ pc' = [pc EXCEPT ![s] = "exists"]
    /\ calls' = [calls EXCEPT ![s] = @ \cup {"generateShortCode", "shortCodeExists"}]
    /\ UNCHANGED <<resp, thrown, urls>>

\* The handler from its entry to its first await (or to its early return).
Begin(s, requests) ==
    /\ pc[s] = "idle"
    /\ UNCHANGED <<callVars, serviceVars>>
    /\ \E r \in requests :
        /\ req' = [req EXCEPT ![s] = r]
        /\ IF MissingUrl(r.url)
           THEN /\ Finish(s, ErrorResponse(400, "URL is required", "MISSING_URL"), NoError)
                /\ UNCHANGED <<calls, urls>>
           ELSE IF ValidateThrows(r.url)
           THEN Finish(s, InternalError, TypeError) /\ UNCHANGED <<calls, urls>>
           ELSE IF ValidationRejects(validateUrl(r.url.str))
           THEN /\ Finish(s, ErrorResponse(400, validateUrl(r.url.str).error, "INVALID_URL"),
                          NoError)
                /\ UNCHANGED <<calls, urls>>
           ELSE IF HeaderMissing(r.header)
           THEN /\ Finish(s, ErrorResponse(402, "Payment required", "PAYMENT_REQUIRED"),
                          NoError)
                /\ UNCHANGED <<calls, urls>>
           ELSE IF PaymentDataMissing(DecodePaymentHeader(r.header))
           THEN /\ Finish(s, ErrorResponse(402, "Invalid payment data", "INVALID_PAYMENT"),
                          NoError)
                /\ UNCHANGED <<calls, urls>>
           ELSE Generate(s)

\* shortCodeExists returns (or throws) and the handler runs to its next await.
ExistsReturn(s) ==
    /\ pc[s] = "exists"
    /\ UNCHANGED <<req, callVars, serviceVars>>
    /\ \/ HandlerCatch(s, shortCodeExistsError(executeQueryError(ConnectionLost)))
       \/ IF LoopContinues(ShortCodeExists(urls, shortCode[s]), attempts[s])
          THEN Generate(s)
          ELSE IF BudgetSpent(attempts[s])
          THEN Finish(s, InternalError, GenerationError) /\ UNCHANGED <<calls, urls>>
          ELSE /\ pc' = [pc EXCEPT ![s] = "store"]
               /\ calls' = [calls EXCEPT ![s] = @ \cup {"storeUrl"}]
               /\ UNCHANGED <<attempts, shortCode, resp, thrown, urls>>

\* storeUrl returns (or throws) and the handler runs to its end.
StoreReturn(s) ==
    /\ pc[s] = "store"
    /\ UNCHANGED <<req, callVars, serviceVars>>
    /\ \/ HandlerCatch(s, storeUrlError(executeQueryError(ConnectionLost)))
       \/ LET row == NewRow(urls, CreateUrlData(req[s], shortCode[s]))
              pgError == InsertError(urls, row)
          IN  IF pgError # NoPgError
              THEN HandlerCatch(s, storeUrlError(executeQueryError(pgError)))
              ELSE /\ urls' = Append(urls, row)
                   /\ Finish(s, SuccessResponse(req[s], shortCode[s]), NoError)
                   /\ UNCHANGED calls

(* ------------------------------------------------------------------ *)
(* handleRedirect                                                      *)
(* ------------------------------------------------------------------ *)

NVisits == 2
Visitors == 1..NVisits

\* req.params.shortCode: the codes of the table and a string of another length.
VisitCodes == Codes \cup {"aB3dE5f"}

\* No row (getUrl returned null, or nothing was read yet).
NoRow ==
    [id |-> 0, short_code |-> NoCode, original_url |-> "", payment_tx_hash |-> Null,
     creator_address |-> Null, expires_at |-> NoExpiry, click_count |-> 0,
     is_active |-> FALSE]

\* The lookup without the test of the active flag.
GetUrl_AnyRow(table, code) ==
    IF \E i \in DOMAIN table : table[i].short_code = code
    THEN table[CHOOSE i \in DOMAIN table : table[i].short_code = code]
    ELSE NoRow

\* SELECT * FROM urls WHERE short_code = $1 AND is_active = true, first row or null.
GetUrl(table, code) ==
    IF \E i \in DOMAIN table : table[i].short_code = code /\ table[i].is_active
    THEN table[CHOOSE i \in DOMAIN table :
                   table[i].short_code = code /\ table[i].is_active]
    ELSE NoRow

\* A redirect request: where it stands, its locals shortCode and urlRecord, the id of
\* the click row it recorded, the status sent and the Location header.
VisitRecord(at, code, row, click, st, loc) ==
    [pc |-> at, shortCode |-> code, urlRecord |-> row, clickId |-> click, status |-> st,
     location |-> loc]
NoVisit == VisitRecord("idle", NoCode, NoRow, 0, 0, "")

\* The handler answers and returns.
Answer(v, st, loc) ==
    visits' = [visits EXCEPT ![v] = [@ EXCEPT !.pc = "done", !.status = st,
                                              !.location = loc]]

\* handleRedirect from its entry to the call of getUrl.
Visit(v) ==
    /\ visits[v].pc = "idle"
    /\ \E code \in VisitCodes :
          IF code = "" \/ Len(code) # 8
          THEN visits' = [visits EXCEPT ![v] = VisitRecord("done", code, NoRow, 0, 404, "")]
          ELSE visits' = [visits EXCEPT ![v] = VisitRecord("getUrl", code, NoRow, 0, 0, "")]
    /\ UNCHANGED <<clicks, limiter, txn, migr, handlerVars, callVars>>

\* getUrl returns (or throws): 404 without a record, else the call of recordClick.
GetUrlReturn(v) ==
    /\ visits[v].pc = "getUrl"
    /\ \/ Answer(v, 500, "")
       \/ IF GetUrl(urls, visits[v].shortCode) = NoRow
          THEN Answer(v, 404, "")
          ELSE visits' = [visits EXCEPT ![v] =
                             [@ EXCEPT !.pc = "recordClick",
                                       !.urlRecord = GetUrl(urls, visits[v].shortCode)]]
    /\ UNCHANGED <<clicks, limiter, txn, migr, handlerVars, callVars>>

\* INSERT INTO clicks (url_id, ...) RETURNING *
NewClick(table, urlId) == [id |-> Len(table) + 1, url_id |-> urlId]

\* The handler going on to the increment without a click row.
RecordClickReturn_NoRow(v) ==
    /\ visits[v].pc = "recordClick"
    /\ visits' = [visits EXCEPT ![v] = [@ EXCEPT !.pc = "increment"]]
    /\ UNCHANGED <<clicks, limiter, txn, migr, handlerVars, callVars>>

\* recordClick returns (or throws): the click row is in, incrementAccessCount is called.
RecordClickReturn(v) ==
    /\ visits[v].pc = "recordClick"
    /\ \/ Answer(v, 500, "") /\ UNCHANGED clicks
       \/ /\ clicks' = Append(clicks, NewClick(clicks, visits[v].urlRecord.id))
          /\ visits' = [visits EXCEPT ![v] = [@ EXCEPT !.pc = "increment",
                                                       !.clickId = Len(clicks) + 1]]
    /\ UNCHANGED <<limiter, txn, migr, handlerVars, callVars>>

\* incrementAccessCount returns (or throws, for a failed query or for no row updated):
\* the 301 is sent after the transaction committed.
IncrementReturn(v) ==
    /\ visits[v].pc = "increment"
    /\ \/ Answer(v, 500, "") /\ UNCHANGED urls
       \/ IF GetUrl(urls, visits[v].shortCode) = NoRow
          THEN Answer(v, 500, "") /\ UNCHANGED urls
          ELSE /\ urls' = IncrementRows(urls, visits[v].shortCode)
               /\ Answer(v, 301, visits[v].urlRecord.original_url)
    /\ UNCHANGED <<clicks, limiter, txn, migr, pc, req, attempts, shortCode, resp, thrown, calls,
                   callVars>>

\* deleteUrl(shortCode) called while redirects are under way.
Retire ==
    /\ \E code \in Codes : urls' = DeleteRows(urls, code)
    /\ UNCHANGED <<serviceVars, pc, req, attempts, shortCode, resp, thrown, calls, callVars>>

(* ------------------------------------------------------------------ *)
(* rateLimiter                                                         *)
(* ------------------------------------------------------------------ *)

windowMs == 15 * 60 * 1000
maxRequests == 100

\* req.ip || req.connection.remoteAddress || "unknown"
ClientIps == {"203.0.113.7", "unknown"}

\* The windows the limiter may start in a run.
MaxWindows == 2

\* store.get(clientIp): undefined, or { count, resetTime }.
NoClientData == [present |-> FALSE, count |-> 0, resetTime |-> 0]
ClientData(n, t) == [present |-> TRUE, count |-> n, resetTime |-> t]

\* !clientData || now > clientData.resetTime
WindowOver(clientData, now) == ~clientData.present \/ now > clientData.resetTime

\* The limit compared with > instead of >=.
LimitReached_Exclusive(clientData) == clientData.count > maxRequests

\* clientData.count >= maxRequests
LimitReached(clientData) == clientData.count >= maxRequests

\* What the limiter did with a request: next() or the 429 response.
Passed(ip) == [ip |-> ip, passed |-> TRUE, status |-> 0, retryAfter |-> 0]
TooMany(ip, seconds) == [ip |-> ip, passed |-> FALSE, status |-> 429, retryAfter |-> seconds]
NoLimiterCall == [ip |-> "", passed |-> FALSE, status |-> 0, retryAfter |-> 0]

\* Math.ceil(ms / 1000) for ms >= 0.
CeilSeconds(ms) == (ms + 999) \div 1000

\* rateLimiter(req, res, next) for a request of clientIp when Date.now() is the clock.
RateLimit(clientIp) ==
    LET now == limiter.now
        clientData == limiter.store[clientIp]
    IN  /\ IF WindowOver(clientData, now)
           THEN /\ limiter.windows < MaxWindows
                /\ limiter' =
                      [limiter EXCEPT !.store[clientIp] = ClientData(1, now + windowMs),
                                      !.windows = @ + 1,
                                      !.last = Passed(clientIp)]
           ELSE IF LimitReached(clientData)
           THEN limiter' =
                    [limiter EXCEPT
                        !.last = TooMany(clientIp, CeilSeconds(clientData.resetTime - now))]
           ELSE limiter' =
                    [limiter EXCEPT !.store[clientIp] =
                                        ClientData(clientData.count + 1,
                                                   clientData.resetTime),
                                    !.last = Passed(clientIp)]
        /\ UNCHANGED <<routeVars, txn, migr, handlerVars, callVars>>

\* Time passes up to the end of some client's window, or just beyond it.
Tick ==
    /\ \E ip \in ClientIps, later \in 0..1 :
          /\ limiter.store[ip].present
          /\ limiter.store[ip].resetTime + later > limiter.now
          /\ limiter' = [limiter EXCEPT !.now = limiter.store[ip].resetTime + later]
    /\ UNCHANGED <<routeVars, txn, migr, handlerVars, callVars>>

LimiterInit ==
    limiter = [store |-> [ip \in ClientIps |-> NoClientData], now |-> 0, windows |-> 0,
               last |-> NoLimiterCall]

(* ------------------------------------------------------------------ *)
(* executeTransaction                                                  *)
(* ------------------------------------------------------------------ *)

\* The calls of executeTransaction made one after the other.
MaxRuns == 3
Runs == 1..MaxRuns

\* What a call has done so far: the statements that succeeded, the releases of the
\* client, and how the call ended ("" while it runs).
NoRun == [connected |-> FALSE, commitOk |-> FALSE, rollbackSent |-> FALSE,
          rollbackOk |-> FALSE, released |-> 0, outcome |-> "", error |-> ""]

\* const client = await pool.connect(), outside the try block.
Connect ==
    /\ txn.pc = "idle"
    /\ txn.run < MaxRuns
    /\ \/ txn' = [txn EXCEPT !.pc = "begin", !.run = @ + 1,
                            !.runs[txn.run + 1] = [NoRun EXCEPT !.connected = TRUE]]
       \/ txn' = [txn EXCEPT !.run = @ + 1,
                            !.runs[txn.run + 1] = [NoRun EXCEPT !.outcome = "threw",
                                                               !.error = "Error"]]
    /\ UNCHANGED <<routeVars, limiter, migr, handlerVars, callVars>>

\* await client.query("BEGIN"): a session already in a transaction stays in it.
BeginReturn ==
    /\ txn.pc = "begin"
    /\ \/ txn' = [txn EXCEPT !.pc = "callback", !.inTx = TRUE]
       \/ txn' = [txn EXCEPT !.pc = "rollback"]
    /\ UNCHANGED <<routeVars, limiter, migr, handlerVars, callVars>>

\* await callback(client): the callback writes and returns, or writes and throws, or
\* throws before it wrote.
CallbackReturn ==
    /\ txn.pc = "callback"
    /\ \/ txn' = [txn EXCEPT !.pc = "commit", !.pending = @ \cup {txn.run}]
       \/ txn' = [txn EXCEPT !.pc = "rollback", !.pending = @ \cup {txn.run}]
       \/ txn' = [txn EXCEPT !.pc = "rollback"]
    /\ UNCHANGED <<routeVars, limiter, migr, handlerVars, callVars>>

\* await client.query("COMMIT"): the pending writes are committed, or the statement
\* fails and the server has rolled the transaction back.
CommitReturn ==
    /\ txn.pc = "commit"
    /\ \/ txn' = [txn EXCEPT !.pc = "finally", !.inTx = FALSE,
                            !.committed = @ \cup txn.pending, !.pending = {},
                            !.runs[txn.run].commitOk = TRUE,
                            !.runs[txn.run].outcome = "returned"]
       \/ txn' = [txn EXCEPT !.pc = "rollback", !.inTx = FALSE, !.pending = {}]
    /\ UNCHANGED <<routeVars, limiter, migr, handlerVars, callVars>>

\* The catch block: await client.query("ROLLBACK"), then throw new QueryError; when
\* the statement fails its error is thrown instead and the session stays as it is.
RollbackReturn ==
    /\ txn.pc = "rollback"
    /\ \/ txn' = [txn EXCEPT !.pc = "finally", !.inTx = FALSE, !.pending = {},
                            !.runs[txn.run].rollbackSent = TRUE,
                            !.runs[txn.run].rollbackOk = TRUE,
                            !.runs[txn.run].outcome = "threw",
                            !.runs[txn.run].error = "QueryError"]
       \/ txn' = [txn EXCEPT !.pc = "finally",
                            !.runs[txn.run].rollbackSent = TRUE,
                            !.runs[txn.run].outcome = "threw",
                            !.runs[txn.run].error = "Error"]
       \/ txn' = [txn EXCEPT !.pc = "finally", !.inTx = FALSE, !.pending = {},
                            !.runs[txn.run].rollbackSent = TRUE,
                            !.runs[txn.run].outcome = "threw",
                            !.runs[txn.run].error = "Error"]
    /\ UNCHANGED <<routeVars, limiter, migr, handlerVars, callVars>>

\* The finally block: client.release().
Release ==
    /\ txn.pc = "finally"
    /\ txn' = [txn EXCEPT !.pc = "idle", !.runs[txn.run].released = @ + 1]
    /\ UNCHANGED <<routeVars, limiter, migr, handlerVars, callVars>>

TxInit ==
    txn = [pc |-> "idle", run |-> 0, inTx |-> FALSE, pending |-> {}, committed |-> {},
          runs |-> [k \in Runs |-> NoRun]]

(* ------------------------------------------------------------------ *)
(* MigrationManager: runMigrations and applyMigration                  *)
(* ------------------------------------------------------------------ *)

\* The versions of the migrations and the lists runMigrations is called with; the
\* last list names a version twice.
Versions == {"001", "002"}
MigrationLists == {<<"001">>, <<"001", "002">>, <<"001", "001">>}

\* The service instances that run their migrations against the same database, and
\* the calls of runMigrations each of them makes.
Instances == {"a", "b"}
MaxMigrationRuns == 2

\* appliedMigrations.includes(migration.version)
Includes(appliedMigrations, version) == version \in appliedMigrations

\* An instance between two calls of runMigrations: the list and the position of the
\* loop, the versions read before the loop, the versions applyMigration was called
\* with, what the open transaction has changed, and how the last call ended.
NoMigrationRun ==
    [pc |-> "idle", run |-> 0, migrations |-> <<>>, i |-> 0, appliedMigrations |-> {},
     called |-> {}, up |-> FALSE, row |-> FALSE, failed |-> FALSE, outcome |-> "",
     error |-> ""]

\* The migration the loop of instance r is at.
Migration(r) == migr.rn[r].migrations[migr.rn[r].i]

\* runMigrations of instance r throws what applyMigration threw.
MigrationsThrow(r, error) ==
    migr' = [migr EXCEPT !.rn[r].pc = "idle", !.rn[r].up = FALSE, !.rn[r].row = FALSE,
                         !.rn[r].failed = FALSE, !.rn[r].outcome = "threw",
                         !.rn[r].error = error]

\* What an action of the migration manager leaves alone.
MigrationFrame == UNCHANGED <<routeVars, limiter, txn, handlerVars, callVars>>

\* runMigrations(migrations): await this.initialize(), which creates the table
\* schema_migrations unless it exists.
RunMigrations(r, migrations) ==
    /\ migr.rn[r].pc = "idle"
    /\ migr.rn[r].run < MaxMigrationRuns
    /\ migr' = [migr EXCEPT !.rn[r] = [NoMigrationRun EXCEPT !.pc = "read",
                                                            !.run = migr.rn[r].run + 1,
                                                            !.migrations = migrations]]
    /\ MigrationFrame

\* getAppliedMigrations(): the versions recorded now; the loop starts.
GetAppliedMigrations(r) ==
    /\ migr.rn[r].pc = "read"
    /\ migr' = [migr EXCEPT !.rn[r].pc = "loop", !.rn[r].i = 1,
                            !.rn[r].appliedMigrations = migr.applied]
    /\ MigrationFrame

\* One turn of the loop: the list is finished, the version is among those read
\* before the loop, or applyMigration is called and connects (or fails to).
LoopStep(r) ==
    /\ migr.rn[r].pc = "loop"
    /\ IF migr.rn[r].i > Len(migr.rn[r].migrations)
       THEN migr' = [migr EXCEPT !.rn[r].pc = "idle", !.rn[r].outcome = "returned"]
       ELSE IF Includes(migr.rn[r].appliedMigrations, Migration(r).version)
       THEN migr' = [migr EXCEPT !.rn[r].i = @ + 1]
       ELSE \/ migr' = [migr EXCEPT !.rn[r].pc = "begin",
                                    !.rn[r].called = @ \cup {Migration(r).version}]
            \/ migr' = [migr EXCEPT !.rn[r].pc = "idle", !.rn[r].outcome = "threw",
                                    !.rn[r].error = "Error",
                                    !.rn[r].called = @ \cup {Migration(r).version}]
    /\ MigrationFrame

\* await client.query("BEGIN")
MigrationBegin(r) ==
    /\ migr.rn[r].pc = "begin"
    /\ \/ migr' = [migr EXCEPT !.rn[r].pc = "up"]
       \/ migr' = [migr EXCEPT !.rn[r].pc = "rollback", !.rn[r].failed = TRUE]
    /\ MigrationFrame

\* await client.query(migration.up): the schema changes are made inside the
\* transaction, or the statement fails and the transaction is aborted.
MigrationUp(r) ==
    /\ migr.rn[r].pc = "up"
    /\ \/ migr' = [migr EXCEPT !.rn[r].pc = "insert", !.rn[r].up = TRUE]
       \/ migr' = [migr EXCEPT !.rn[r].pc = "rollback", !.rn[r].failed = TRUE]
    /\ MigrationFrame

\* Another instance's open transaction has inserted the row of this version: the
\* INSERT waits for that transaction to end.
InsertWaits(r, version) ==
    \E q \in Instances \ {r} :
        /\ migr.rn[q].row
        /\ migr.rn[q].migrations[migr.rn[q].i].version = version

\* The PRIMARY KEY of schema_migrations refuses a version that is recorded.
PrimaryKeyTaken(applied, version) == version \in applied

\* INSERT INTO schema_migrations (version, name) VALUES ($1, $2)
MigrationInsert(r) ==
    /\ migr.rn[r].pc = "insert"
    /\ ~InsertWaits(r, Migration(r).version)
    /\ \/ /\ ~PrimaryKeyTaken(migr.applied, Migration(r).version)
          /\ migr' = [migr EXCEPT !.rn[r].pc = "commit", !.rn[r].row = TRUE]
       \/ migr' = [migr EXCEPT !.rn[r].pc = "rollback", !.rn[r].failed = TRUE]
    /\ MigrationFrame

\* await client.query("COMMIT"): the schema changes and the row become visible
\* together, or the transaction is rolled back by the server.
MigrationCommit(r) ==
    /\ migr.rn[r].pc = "commit"
    /\ LET version == Migration(r).version IN
       \/ migr' = [migr EXCEPT
              !.schema = IF migr.rn[r].up THEN @ \cup {version} ELSE @,
              !.applied = IF migr.rn[r].row THEN @ \cup {version} ELSE @,
              !.commits[version] = @ + 1,
              !.rn[r].pc = "finally", !.rn[r].up = FALSE, !.rn[r].row = FALSE]
       \/ migr' = [migr EXCEPT !.rn[r].pc = "rollback", !.rn[r].failed = TRUE,
                               !.rn[r].up = FALSE, !.rn[r].row = FALSE]
    /\ MigrationFrame

\* The catch block: ROLLBACK, then throw new Error("Failed to apply migration ...").
\* Every way into the block is a statement that failed, so the transaction is
\* aborted (or its session is gone) and its changes are discarded whether the
\* ROLLBACK succeeds or not; when it fails its own error is thrown.
MigrationRollback(r) ==
    /\ migr.rn[r].pc = "rollback"
    /\ \E error \in {"Failed to apply migration", "Error"} :
          migr' = [migr EXCEPT !.rn[r].pc = "finally", !.rn[r].up = FALSE,
                               !.rn[r].row = FALSE, !.rn[r].error = error]
    /\ MigrationFrame

\* The finally block: client.release(); the loop goes on after a migration that
\* was applied, and runMigrations throws after one that failed.
MigrationRelease(r) ==
    /\ migr.rn[r].pc = "finally"
    /\ IF migr.rn[r].failed
       THEN MigrationsThrow(r, migr.rn[r].error)
       ELSE migr' = [migr EXCEPT !.rn[r].pc = "loop", !.rn[r].i = @ + 1]
    /\ MigrationFrame

\* No migration has been applied and no instance has started.
MigrationInit ==
    migr = [applied |-> {}, schema |-> {}, commits |-> [v \in Versions |-> 0],
            rn |-> [r \in Instances |-> NoMigrationRun]]

ServiceInit ==
    /\ visits = [v \in Visitors |-> NoVisit]
    /\ clicks = <<>>
    /\ LimiterInit
    /\ TxInit
    /\ MigrationInit

Init ==
    /\ pc = [s \in Subs |-> "idle"]
    /\ req = [s \in Subs |-> NoRequest]
    /\ attempts = [s \in Subs |-> 0]
    /\ shortCode = [s \in Subs |-> NoCode]
    /\ resp = [s \in Subs |-> NoResponse]
    /\ thrown = [s \in Subs |-> NoError]
    /\ calls = [s \in Subs |-> {}]
    /\ urls = <<>>
    /\ lastValidate = NoValidateCall
    /\ lastVerify = NoVerifyCall
    /\ lastStorage = ""
    /\ lastGenerate = NoGenerateCall
    /\ ServiceInit

\* Concurrent submissions of well-formed requests against an empty table.
Next == \E s \in Subs : Begin(s, RaceRequests) \/ ExistsReturn(s) \/ StoreReturn(s)

Spec == Init /\ [][Next]_vars

\* Every query the pool runs returns or fails.
FairSpec ==
    Spec /\ \A s \in Subs : WF_vars(ExistsReturn(s)) /\ WF_vars(StoreReturn(s))

\* The tables an earlier run of the service can have left: rows of earlier
\* submissions under distinct codes, in any order.
RECURSIVE TableOf(_)
TableOf(codes) ==
    IF Len(codes) = 0 THEN <<>>
    ELSE LET before == TableOf(SubSeq(codes, 1, Len(codes) - 1))
         IN  Append(before,
                    NewRow(before,
                           [shortCode |-> codes[Len(codes)], originalUrl |-> UrlPlain,
                            paymentTxHash |-> TxHashA, creatorAddress |-> PayerA]))
PriorTables ==
    {TableOf(q) : q \in UNION {{f \in [1..n -> Codes] :
                                    \A i, j \in 1..n : f[i] = f[j] => i = j} :
                               n \in 0..Cardinality(Codes)}}

\* One submission of any request against a table that earlier submissions filled.
GateInit ==
    /\ pc = [s \in Subs |-> "idle"]
    /\ req = [s \in Subs |-> NoRequest]
    /\ attempts = [s \in Subs |-> 0]
    /\ shortCode = [s \in Subs |-> NoCode]
    /\ resp = [s \in Subs |-> NoResponse]
    /\ thrown = [s \in Subs |-> NoError]
    /\ calls = [s \in Subs |-> {}]
    /\ urls \in PriorTables
    /\ lastValidate = NoValidateCall
    /\ lastVerify = NoVerifyCall
    /\ lastStorage = ""
    /\ lastGenerate = NoGenerateCall
    /\ ServiceInit

GateNext == Begin(1, Requests) \/ ExistsReturn(1) \/ StoreReturn(1)

GateSpec == GateInit /\ [][GateNext]_vars

\* No direct call has been recorded yet.
NoCallYet == ~lastValidate.called /\ ~lastVerify.called /\ ~lastGenerate.called

\* A direct call of UrlValidator.validateUrl.
ValidateCall ==
    /\ NoCallYet
    /\ \E u \in UrlInputs :
          lastValidate' = [called |-> TRUE, urlString |-> u, result |-> validateUrl(u),
                           repeated |-> FALSE, second |-> Invalid("", "")]
    /\ UNCHANGED <<lastVerify, lastStorage, lastGenerate, handlerVars, serviceVars>>

\* A direct call of PaymentHandler.verifyPayment.
VerifyCall ==
    /\ NoCallYet
    /\ \E d \in PaymentInputs :
          lastVerify' = [called |-> TRUE, paymentData |-> d, result |-> verifyPayment(d)]
    /\ UNCHANGED <<lastValidate, lastStorage, lastGenerate, handlerVars, serviceVars>>

\* validateUrl called a second time with the input of the first call.
ValidateAgain ==
    /\ lastValidate.called
    /\ ~lastValidate.repeated
    /\ lastValidate' = [lastValidate EXCEPT !.repeated = TRUE,
                                            !.second = validateUrl(lastValidate.urlString)]
    /\ UNCHANGED <<lastVerify, lastStorage, lastGenerate, handlerVars, serviceVars>>

\* A direct call of generateRandomCode, its result passed to isValidShortCode.
GenerateRandomCall ==
    /\ NoCallYet
    /\ \E bytes \in ByteInputs :
          lastGenerate' =
              GenerateRecord("generateRandomCode", bytes, NotGiven({}), <<>>,
                             Returned(generateRandomCode(bytes), 1),
                             isValidShortCode(generateRandomCode(bytes)))
    /\ UNCHANGED <<lastValidate, lastVerify, lastStorage, handlerVars, serviceVars>>

\* A direct call of isValidShortCode.
IsValidCall ==
    /\ NoCallYet
    /\ \E code \in CodeInputs :
          lastGenerate' =
              GenerateRecord("isValidShortCode", <<>>, NotGiven({}), <<>>,
                             Returned(code, 0), isValidShortCode(code))
    /\ UNCHANGED <<lastValidate, lastVerify, lastStorage, handlerVars, serviceVars>>

\* A direct call of generateShortCode.
GenerateShortCodeCall ==
    /\ NoCallYet
    /\ \E existingCodes \in ExistingInputs, stream \in StreamInputs :
          lastGenerate' =
              GenerateRecord("generateShortCode", <<>>, existingCodes, stream,
                             generateShortCode(existingCodes, stream), FALSE)
    /\ UNCHANGED <<lastValidate, lastVerify, lastStorage, handlerVars, serviceVars>>

CallNext ==
    ValidateCall \/ VerifyCall \/ GenerateRandomCall \/ IsValidCall \/ GenerateShortCodeCall

\* The validator or the verifier called on its own, on any of its inputs.
CallSpec == Init /\ [][CallNext]_vars

\* The bounds of the table's history: clicks counted per row, and the clock.
MaxClicks == 2
MaxTime == 2
Times == 1..MaxTime

UrlUpdated == "https://example.org/moved"

\* The arguments UrlStorageService is called with directly.
StoreInputs ==
    {[shortCode |-> c, originalUrl |-> UrlPlain, paymentTxHash |-> TxHashA,
      creatorAddress |-> PayerA] : c \in Codes}
    \cup {[shortCode |-> c, originalUrl |-> UrlPlain, paymentTxHash |-> TxHashA,
           creatorAddress |-> PayerA, expiresAt |-> 1] : c \in Codes}
UpdateInputs ==
    [originalUrl : {NotGiven(""), Given(UrlUpdated)},
     isActive : {NotGiven(FALSE), Given(TRUE), Given(FALSE)},
     expiresAt : {NotGiven(NoExpiry), Given(NoExpiry), Given(1)}]

\* What a direct call of UrlStorageService leaves alone.
StorageFrame ==
    UNCHANGED <<pc, req, attempts, shortCode, resp, thrown, calls, lastValidate, lastVerify,
                lastGenerate, serviceVars>>

\* storeUrl(data): the row is inserted unless PostgreSQL refuses it.
StoreUrlOp ==
    /\ \E data \in StoreInputs :
          /\ InsertError(urls, NewRow(urls, data)) = NoPgError
          /\ urls' = Append(urls, NewRow(urls, data))
    /\ lastStorage' = "storeUrl"
    /\ StorageFrame

\* updateUrl(shortCode, data)
UpdateUrlOp ==
    /\ \E code \in Codes, data \in UpdateInputs : urls' = UpdateUrlRows(urls, code, data)
    /\ lastStorage' = "updateUrl"
    /\ StorageFrame

\* incrementAccessCount(shortCode), its transaction committed.
IncrementOp ==
    /\ \E code \in Codes :
          /\ \A i \in DOMAIN urls :
                urls[i].short_code = code => urls[i].click_count < MaxClicks
          /\ urls' = IncrementRows(urls, code)
    /\ lastStorage' = "incrementAccessCount"
    /\ StorageFrame

\* deleteUrl(shortCode)
DeleteOp ==
    /\ \E code \in Codes : urls' = DeleteRows(urls, code)
    /\ lastStorage' = "deleteUrl"
    /\ StorageFrame

\* cleanupExpiredUrls() when the database's clock shows now.
CleanupOp ==
    /\ \E now \in Times : urls' = CleanupRows(urls, now)
    /\ lastStorage' = "cleanupExpiredUrls"
    /\ StorageFrame

StorageNext == StoreUrlOp \/ UpdateUrlOp \/ IncrementOp \/ DeleteOp \/ CleanupOp

\* The operations of UrlStorageService called in any order on a table that starts empty.
StorageSpec == Init /\ [][StorageNext]_vars

TxNext ==
    Connect \/ BeginReturn \/ CallbackReturn \/ CommitReturn \/ RollbackReturn \/ Release

\* Calls of executeTransaction, one after the other, on the same pooled client.
TxSpec == Init /\ [][TxNext]_vars

MigrationNext ==
    \E r \in Instances :
        \/ \E versions \in MigrationLists :
              RunMigrations(r, [k \in DOMAIN versions |->
                                  [version |-> versions[k], name |-> "m" \o versions[k]]])
        \/ GetAppliedMigrations(r)
        \/ LoopStep(r)
        \/ MigrationBegin(r)
        \/ MigrationUp(r)
        \/ MigrationInsert(r)
        \/ MigrationCommit(r)
        \/ MigrationRollback(r)
        \/ MigrationRelease(r)

\* The service instances running their migrations against the same database.
MigrationSpec == Init /\ [][MigrationNext]_vars

LimiterNext == (\E clientIp \in ClientIps : RateLimit(clientIp)) \/ Tick

\* Requests of the clients passing through the rate limiter as time goes by.
LimiterSpec == Init /\ [][LimiterNext]_vars

RetireNext ==
    \/ \E s \in Subs : Begin(s, RaceRequests) \/ ExistsReturn(s) \/ StoreReturn(s)
    \/ Retire

\* Concurrent submissions while records are retired.
RetireSpec == Init /\ [][RetireNext]_vars

RedirectNext ==
    \/ \E v \in Visitors :
          Visit(v) \/ GetUrlReturn(v) \/ RecordClickReturn(v) \/ IncrementReturn(v)
    \/ Retire

\* Redirect requests and retirements in any order, on a table that earlier submissions
\* filled.
RedirectSpec == GateInit /\ [][RedirectNext]_vars

RepeatNext ==
    \/ ValidateCall
    \/ ValidateAgain
    \/ Begin(1, RaceRequests) \/ ExistsReturn(1) \/ StoreReturn(1)

\* validateUrl called twice with one input, before, between and after the steps of a
\* submission.
RepeatSpec == Init /\ [][RepeatNext]_vars

(* ------------------------------------------------------------------ *)
(* Properties                                                          *)
(* ------------------------------------------------------------------ *)

\* The request's URL is a string the validator accepts / rejects.
UrlAccepted(r) ==
    r.url.type = "string" /\ ~MissingUrl(r.url) /\ validateUrl(r.url.str).isValid
UrlRejected(r) ==
    r.url.type = "string" /\ ~MissingUrl(r.url) /\ ~validateUrl(r.url.str).isValid

\* Submission s has just had its answer from shortCodeExists (the query did not fail).
ExistsAnswered(s) ==
    /\ pc[s] = "exists"
    /\ pc'[s] # "exists" \/ attempts'[s] # attempts[s]
    /\ thrown'[s].name # "DatabaseError"

\* C1: the table never holds two rows with the same short code, and for every code
\* at most one submission is answered with success under it.
C1_NoDuplicateCode ==
    /\ \A i, j \in DOMAIN urls : urls[i].short_code = urls[j].short_code => i = j
    /\ \A c \in Codes :
          Cardinality({s \in Subs : resp[s].status = 200 /\ resp[s].shortCode = c}) <= 1

\* C1 witness: two submissions raced for one code; one persisted it, the other's insert
\* was refused by the constraint.
C1_Witness ==
    \E s, t \in Subs :
        /\ s # t
        /\ resp[s].status = 200
        /\ thrown[t].cause = "23505"
        /\ Len(urls) = 1

\* C2: a uniqueness violation at the insert is no fatal error for the submission.
C2_UniqueViolationNotFatal ==
    \A s \in Subs : thrown[s].cause = "23505" => resp[s].status # 500

\* C3: an insert refused by the uniqueness constraint makes storeUrl throw a
\* UniqueConstraintError on short_code; any other failure of the insert a DatabaseError.
C3_UniqueViolationDistinguishable ==
    \A s \in Subs :
        /\ thrown[s].cause = "23505" =>
              thrown[s].name = "UniqueConstraintError" /\ thrown[s].field = "short_code"
        /\ thrown[s].cause \notin {"", "23505"} => thrown[s].name = "DatabaseError"

\* C4: a submission calls Storage (existence check or insert) only if its URL passed
\* validation and the verifier approves its payment claim.
C4_StorageOnlyAfterVerification ==
    \A s \in Subs :
        calls[s] # {} =>
            /\ UrlAccepted(req[s])
            /\ verifyPayment(DecodePaymentHeader(req[s].header)).isValid

\* C5: a submission with a valid URL and no payment header ends with 402
\* PAYMENT_REQUIRED, having generated no code and called Storage for nothing.
C5_PaymentRequiredFirst ==
    \A s \in Subs :
        (pc[s] # "idle" /\ UrlAccepted(req[s]) /\ req[s].header.kind = "absent") =>
            /\ pc[s] = "done"
            /\ resp[s].status = 402
            /\ resp[s].code = "PAYMENT_REQUIRED"
            /\ calls[s] = {}

\* C5 witness: such a submission has been answered.
C5_Witness ==
    \E s \in Subs :
        /\ pc[s] = "done"
        /\ UrlAccepted(req[s])
        /\ req[s].header.kind = "absent"
        /\ resp[s].status = 402

\* C6: the step that takes in a request whose URL fails validation ends the
\* submission, generates no code, calls Storage for nothing and leaves the table as it was.
C6_RejectedUrlTouchesNothing ==
    [][\A s \in Subs :
          (pc[s] = "idle" /\ pc'[s] # "idle" /\ UrlRejected(req'[s])) =>
              /\ pc'[s] = "done"
              /\ calls'[s] = {}
              /\ urls' = urls]_vars

\* C6 witness: a request with a rejected URL and a well-formed payment claim has been
\* answered 400 against a table that holds rows.
C6_Witness ==
    \E s \in Subs :
        /\ pc[s] = "done"
        /\ UrlRejected(req[s])
        /\ req[s].header = HeaderOf(ClaimGood)
        /\ resp[s].status = 400
        /\ calls[s] = {}
        /\ Len(urls) > 0

\* C7: the reason code answered for a rejected URL is the validator's reason code.
C7_ReasonCodeIsValidators ==
    \A s \in Subs :
        (pc[s] = "done" /\ UrlRejected(req[s])) =>
            resp[s].code = validateUrl(req[s].url.str).code

\* C8: when the tenth candidate in a row exists, the submission is answered
\* CODE_GENERATION_EXHAUSTED and has not called storeUrl.
C8_ExhaustionReported ==
    [][\A s \in Subs :
          (/\ ExistsAnswered(s)
           /\ attempts[s] = maxAttempts
           /\ ShortCodeExists(urls, shortCode[s])) =>
              /\ pc'[s] = "done"
              /\ resp'[s].code = "CODE_GENERATION_EXHAUSTED"
              /\ "storeUrl" \notin calls'[s]]_vars

\* C9: a candidate that Storage reports as not existing is the one passed to the
\* insert, whichever of the 10 attempts produced it; the loop gives up only when the
\* tenth candidate exists too.
C9_FirstFreeCandidateSelected ==
    [][\A s \in Subs :
          /\ (ExistsAnswered(s) /\ ~ShortCodeExists(urls, shortCode[s])) =>
                pc'[s] = "store" /\ shortCode'[s] = shortCode[s]
          /\ (ExistsAnswered(s) /\ thrown'[s] = GenerationError) =>
                attempts[s] = maxAttempts /\ ShortCodeExists(urls, shortCode[s])]_vars

\* C10: a submission never generates more than 10 candidates, and every submission
\* that was taken in is answered.
C10_BoundedTermination ==
    /\ [](\A s \in Subs : attempts[s] <= maxAttempts)
    /\ \A s \in Subs : (pc[s] # "idle") ~> (pc[s] = "done")

\* C10 witness: one submission was answered after its tenth candidate while another
\* had persisted its record.
C10_Witness ==
    \E s, t \in Subs :
        /\ s # t
        /\ pc[s] = "done"
        /\ thrown[s] = GenerationError
        /\ resp[t].status = 200

RestOfClaimPasses(d) ==
    /\ d.type = "object"
    /\ d.network = "base-sepolia"
    /\ d.asset \in {USDC_CONTRACT_ADDRESS, ToLowerCase(USDC_CONTRACT_ADDRESS)}
    /\ d.txHash = TxHashA
    /\ d.creatorAddress = PayerA

\* C12: the shipped bounds are 1000 and 10000, and a claim that is otherwise in order
\* is accepted with amount 1000 and with amount 10000, rejected as too low with 999 and
\* as too high with 10001.
C12_BoundsInclusive ==
    /\ parseInt(PAYMENT_REQUIREMENTS.minAmountRequired) = [nan |-> FALSE, val |-> 1000]
    /\ parseInt(PAYMENT_REQUIREMENTS.maxAmountRequired) = [nan |-> FALSE, val |-> 10000]
    /\ (lastVerify.called /\ RestOfClaimPasses(lastVerify.paymentData)) =>
          /\ lastVerify.paymentData.amount \in {"1000", "10000"} =>
                lastVerify.result.isValid
          /\ lastVerify.paymentData.amount = "999" =>
                /\ ~lastVerify.result.isValid
                /\ lastVerify.result.error = "Payment amount too low"
          /\ lastVerify.paymentData.amount = "10001" =>
                /\ ~lastVerify.result.isValid
                /\ lastVerify.result.error = "Payment amount too high"

\* C12 witness: a claim paying exactly the maximum has been accepted.
C12_Witness ==
    /\ lastVerify.called
    /\ RestOfClaimPasses(lastVerify.paymentData)
    /\ lastVerify.paymentData.amount = "10000"
    /\ lastVerify.result.isValid

\* The reason code the gate's interface names for a message of the verifier.
VerifierReason(result) ==
    CASE result.error = "No payment data provided" -> "MISSING_FIELDS"
      [] result.error = "Missing required payment fields" -> "MISSING_FIELDS"
      [] result.error = "Invalid network" -> "INVALID_NETWORK"
      [] result.error = "Invalid asset" -> "INVALID_ASSET"
      [] result.error = "Payment amount too low" -> "AMOUNT_TOO_LOW"
      [] result.error = "Payment amount too high" -> "AMOUNT_TOO_HIGH"
      [] result.error = "Invalid transaction hash format" -> "INVALID_TX_HASH"
      [] result.error = "Invalid creator address format" -> "INVALID_PAYER_ADDRESS"
      [] OTHER -> ""

\* The string is a decimal integer (blanks around it and a sign allowed), and its value.
DenotesInteger(str) ==
    LET t == Trim(str)
        body == IF Len(t) > 0 /\ CharAt(t, 1) \in {"-", "+"} THEN SubSeq(t, 2, Len(t)) ELSE t
    IN  Len(body) > 0 /\ AllIn(body, Digits)
IntegerInRange(str) ==
    /\ DenotesInteger(str)
    /\ parseInt(str).val >= 1000
    /\ parseInt(str).val <= 10000

\* C13: the amount of every accepted claim is an integer between the minimum and the
\* maximum, and a claim that is otherwise in order whose amount is present and is no
\* such integer is rejected as too low or too high.
C13_AcceptedAmountInRange ==
    lastVerify.called =>
        /\ lastVerify.result.isValid => IntegerInRange(lastVerify.paymentData.amount)
        /\ (/\ RestOfClaimPasses(lastVerify.paymentData)
            /\ ~Falsy(lastVerify.paymentData.amount)
            /\ ~IntegerInRange(lastVerify.paymentData.amount)) =>
              /\ ~lastVerify.result.isValid
              /\ VerifierReason(lastVerify.result) \in {"AMOUNT_TOO_LOW", "AMOUNT_TOO_HIGH"}

\* C14: a result is never partially populated: an accepted URL comes with its
\* normalized form and no reason, an accepted claim with its data and no message; a
\* rejection by the validator or by the verifier comes with a reason code and a
\* message and without payload.
C14_ResultsFullyPopulated ==
    /\ lastValidate.called =>
          IF lastValidate.result.isValid
          THEN /\ ~Falsy(lastValidate.result.normalizedUrl)
               /\ lastValidate.result.code = Undefined
               /\ lastValidate.result.error = Undefined
          ELSE /\ ~Falsy(lastValidate.result.code)
               /\ ~Falsy(lastValidate.result.error)
               /\ lastValidate.result.normalizedUrl = Undefined
    /\ lastVerify.called =>
          IF lastVerify.result.isValid
          THEN /\ lastVerify.result.paymentData.type = "object"
               /\ lastVerify.result.error = Undefined
          ELSE /\ "code" \in DOMAIN lastVerify.result
               /\ ~Falsy(lastVerify.result.error)
               /\ lastVerify.result.paymentData = JsonUndefined

\* C15: a submission of "javascript:alert(1)" or of a data: URL ends with the
\* validator's reason UNSAFE_PROTOCOL and without any call of Storage.
C15_UnsafeProtocolReported ==
    \A s \in Subs :
        (/\ pc[s] # "idle"
         /\ req[s].url.type = "string"
         /\ req[s].url.str \in {UrlJavascript, UrlData}) =>
            /\ pc[s] = "done"
            /\ validateUrl(req[s].url.str).code = "UNSAFE_PROTOCOL"
            /\ calls[s] = {}

\* The parts of the URL the last direct call of validateUrl was given.
LastUrl == ParseUrl(Trim(lastValidate.urlString))
LastUrlIsHttp ==
    /\ lastValidate.called
    /\ Len(lastValidate.urlString) <= MAX_URL_LENGTH
    /\ LastUrl.ok
    /\ LastUrl.protocol \in {"http:", "https:"}

\* C16: whatever its scheme, a URL whose host is 127.0.0.1, 10.1.2.3, 192.168.0.5 or
\* localhost is rejected with PRIVATE_IP or BLOCKED_HOSTNAME.
C16_LocalHostRejectedForAnyScheme ==
    (/\ lastValidate.called
     /\ lastValidate.urlString \in
            {UrlLocalhost, UrlLoopback}
            \cup {UrlOf(scheme, host, tail) :
                    scheme \in Schemes,
                    host \in {"127.0.0.1", "10.1.2.3", "192.168.0.5", "localhost"},
                    tail \in Tails}) =>
        /\ ~lastValidate.result.isValid
        /\ lastValidate.result.code \in {"PRIVATE_IP", "BLOCKED_HOSTNAME"}

\* The labels of a host name: the strings between its dots.
RECURSIVE Labels(_)
Labels(host) ==
    LET dot == IndexOfAny(host, {"."}, 1)
    IN  IF dot = 0 THEN <<host>>
        ELSE <<SubSeq(host, 1, dot - 1)>> \o Labels(SubSeq(host, dot + 1, Len(host)))

\* The host is a dotted-decimal IPv4 address, and its octets.
IsV4Literal(host) ==
    /\ Len(Labels(host)) = 4
    /\ \A i \in 1..4 : Labels(host)[i] # "" /\ AllIn(Labels(host)[i], Digits)
Octet(host, i) == DigitsPrefix(Labels(host)[i], 0)

\* 127/8, 10/8, 172.16/12, 192.168/16, 169.254/16, 0/8, 224.0.0.0/4, 240.0.0.0/4.
InBlockedV4Range(host) ==
    \/ Octet(host, 1) \in {127, 10, 0}
    \/ Octet(host, 1) = 172 /\ Octet(host, 2) \in 16..31
    \/ Octet(host, 1) = 192 /\ Octet(host, 2) = 168
    \/ Octet(host, 1) = 169 /\ Octet(host, 2) = 254
    \/ Octet(host, 1) \in 224..239
    \/ Octet(host, 1) \in 240..255

\* C17: an http or https URL whose host is an IPv4 address in one of the blocked
\* ranges is rejected with PRIVATE_IP, or with BLOCKED_HOSTNAME for 0.0.0.0.
C17_BlockedV4NeverAccepted ==
    (/\ LastUrlIsHttp
     /\ IsV4Literal(LastUrl.hostname)
     /\ InBlockedV4Range(LastUrl.hostname)) =>
        /\ ~lastValidate.result.isValid
        /\ lastValidate.result.code =
              IF LastUrl.hostname = "0.0.0.0" THEN "BLOCKED_HOSTNAME" ELSE "PRIVATE_IP"

\* The bracketed IPv6 address is ::1 or ::, or its first group lies in fe80::/10
\* (fe80..febf) or in fc00::/7 (fc00..fdff).
InBlockedV6Range(host) ==
    LET address == SubSeq(host, 2, Len(host) - 1)
        colon == IndexOfAny(address, {":"}, 1)
        group == SubSeq(address, 1, colon - 1)
    IN  /\ StartsWith(host, "[") /\ EndsWith(host, "]")
        /\ \/ address \in {"::1", "::"}
           \/ /\ Len(group) = 4
              /\ \/ StartsWith(group, "fe") /\ CharAt(group, 3) \in {"8", "9", "a", "b"}
                 \/ StartsWith(group, "fc")
                 \/ StartsWith(group, "fd")

\* C18: an http or https URL whose host is the IPv6 address ::1 or ::, or one in
\* fe80::/10 or fc00::/7, is rejected with PRIVATE_IP or BLOCKED_HOSTNAME.
C18_BlockedV6NeverAccepted ==
    (LastUrlIsHttp /\ InBlockedV6Range(LastUrl.hostname)) =>
        /\ ~lastValidate.result.isValid
        /\ lastValidate.result.code \in {"PRIVATE_IP", "BLOCKED_HOSTNAME"}

\* The host is a listed shortener domain or ends with a dot followed by one.
ListedOrSubdomain(host) ==
    \E domain \in SHORTENER_DOMAINS :
        \/ host = domain
        \/ \E k \in 1..Len(host) : SubSeq(host, k, Len(host)) = "." \o domain

\* C19: the validator answers SHORTENER_CHAIN exactly for the http and https URLs
\* whose host passes the checks before it and is a listed domain or a subdomain of
\* one; notbit.ly is accepted.
C19_ShortenerChainExact ==
    lastValidate.called =>
        /\ lastValidate.result.code = "SHORTENER_CHAIN" <=>
              /\ LastUrlIsHttp
              /\ LastUrl.hostname \notin BLOCKED_HOSTNAMES
              /\ ~isPrivateOrLocalIP(LastUrl.hostname)
              /\ ListedOrSubdomain(LastUrl.hostname)
        /\ (LastUrlIsHttp /\ LastUrl.hostname = "notbit.ly") =>
              lastValidate.result.isValid

\* C19 witness: a URL on a subdomain two labels below tinyurl.com has been rejected
\* as a shortener chain.
C19_Witness ==
    /\ lastValidate.called
    /\ lastValidate.urlString = UrlOf("http", "a.b.tinyurl.com", "/a?x=1")
    /\ lastValidate.result.code = "SHORTENER_CHAIN"

\* C20: the record of a successful submission holds the validator's normalized URL,
\* not the text submitted, and the response repeats the record's code and URL.
C20_StoredUrlIsNormalized ==
    \A s \in Subs :
        resp[s].status = 200 =>
            \E i \in DOMAIN urls :
                /\ urls[i].short_code = resp[s].shortCode
                /\ urls[i].original_url = validateUrl(req[s].url.str).normalizedUrl
                /\ urls[i].original_url = ParseUrl(Trim(req[s].url.str)).href
                /\ resp[s].originalUrl = urls[i].original_url

\* C20 witness: a URL submitted with blanks, upper case and a default port has been
\* stored in its normalized form.
C20_Witness ==
    \E s \in Subs :
        /\ resp[s].status = 200
        /\ req[s].url.str = UrlMessy
        /\ \E i \in DOMAIN urls :
              /\ urls[i].short_code = resp[s].shortCode
              /\ urls[i].original_url = "http://example.com/a?x=1"
              /\ urls[i].original_url # req[s].url.str

\* C21: the record a submission persisted holds the transaction hash and the payer
\* address of the claim that came with it, both present, the claim is one the
\* verifier approves, and the response reports the same transaction hash.
C21_RecordLinkedToPayment ==
    \A s \in Subs :
        resp[s].status = 200 =>
            \E i \in DOMAIN urls :
                /\ urls[i].short_code = resp[s].shortCode
                /\ verifyPayment(DecodePaymentHeader(req[s].header)).isValid
                /\ urls[i].payment_tx_hash \notin {Null, Undefined, ""}
                /\ urls[i].creator_address \notin {Null, Undefined, ""}
                /\ urls[i].payment_tx_hash = DecodePaymentHeader(req[s].header).txHash
                /\ urls[i].creator_address =
                      DecodePaymentHeader(req[s].header).creatorAddress
                /\ resp[s].paymentTxHash = urls[i].payment_tx_hash

\* C22: no operation of Storage lowers a row's click_count: a new row starts at 0,
\* and a step that changes a count is incrementAccessCount adding 1 to it.
C22_ClickCountMonotone ==
    [][/\ \A i \in DOMAIN urls :
            /\ i \in DOMAIN urls'
            /\ urls'[i].click_count >= urls[i].click_count
            /\ urls'[i].click_count # urls[i].click_count =>
                  /\ urls'[i].click_count = urls[i].click_count + 1
                  /\ lastStorage' = "incrementAccessCount"
       /\ \A i \in DOMAIN urls' \ DOMAIN urls : urls'[i].click_count = 0]_vars

\* C22 witness: a row was counted twice, then updated and retired; its count is
\* still 2 beside a row never counted.
C22_Witness ==
    \E i, j \in DOMAIN urls :
        /\ urls[i].click_count = 2
        /\ urls[i].original_url = UrlUpdated
        /\ ~urls[i].is_active
        /\ urls[j].click_count = 0
        /\ lastStorage = "cleanupExpiredUrls"

\* C23: no operation of Storage removes a row or changes a row's short code or id;
\* the codes present only grow, and deleteUrl and cleanupExpiredUrls change nothing
\* but is_active, which they set to false.
C23_RowsKeptCodesFixed ==
    [][/\ Len(urls') >= Len(urls)
       /\ {urls[i].short_code : i \in DOMAIN urls}
             \subseteq {urls'[i].short_code : i \in DOMAIN urls'}
       /\ \A i \in DOMAIN urls :
             /\ i \in DOMAIN urls'
             /\ urls'[i].short_code = urls[i].short_code
             /\ urls'[i].id = urls[i].id
       /\ lastStorage' \in {"deleteUrl", "cleanupExpiredUrls"} =>
             /\ Len(urls') = Len(urls)
             /\ \A i \in DOMAIN urls :
                   \/ urls'[i] = urls[i]
                   \/ urls[i].is_active /\ urls'[i] = [urls[i] EXCEPT !.is_active = FALSE]]_vars

\* C23 witness: both rows have been retired, one by deleteUrl and one by
\* cleanupExpiredUrls, and both are still in the table under their codes.
C23_Witness ==
    /\ Len(urls) = 2
    /\ {urls[i].short_code : i \in DOMAIN urls} = Codes
    /\ \A i \in DOMAIN urls : ~urls[i].is_active
    /\ \E i \in DOMAIN urls : urls[i].expires_at = NoExpiry
    /\ lastStorage = "cleanupExpiredUrls"

Alphabet62 ==
    Letters \cup Digits
    \cup {"A", "B", "C", "D", "E", "F", "G", "H", "I", "J", "K", "L", "M", "N", "O", "P",
          "Q", "R", "S", "T", "U", "V", "W", "X", "Y", "Z"}
WellFormedCode(code) == Len(code) = 8 /\ AllIn(code, Alphabet62)

\* C25: every code generateRandomCode builds has 8 characters, all among the 62
\* symbols, and isValidShortCode accepts it; isValidShortCode accepts a string exactly
\* when it has 8 characters, all among the 62 symbols.
C25_CodesWellFormed ==
    /\ Cardinality(Alphabet62) = 62
    /\ {CharAt(BASE62_CHARS, k) : k \in 1..Len(BASE62_CHARS)} = Alphabet62
    /\ (lastGenerate.called /\ lastGenerate.op = "generateRandomCode") =>
          WellFormedCode(lastGenerate.outcome.code) /\ lastGenerate.valid
    /\ (lastGenerate.called /\ lastGenerate.op = "isValidShortCode") =>
          (lastGenerate.valid <=> WellFormedCode(lastGenerate.outcome.code))

\* C25 witness: a code was built from bytes that are all 62 or more, and accepted.
C25_Witness ==
    /\ lastGenerate.called
    /\ lastGenerate.op = "generateRandomCode"
    /\ \A i \in 1..8 : lastGenerate.bytes[i] >= 62
    /\ lastGenerate.valid

\* The codes generateShortCode drew before its outcome.
Drawn(g) == {g.stream[k] : k \in 1..g.outcome.generated}

\* C29: generateShortCode with a set of existing codes returns a code outside the
\* set, all codes drawn before it being members, or throws after 10 drawn codes that
\* were all members; it never returns a member. Without a set it returns the first
\* code drawn.
C29_GeneratedCodeIsFresh ==
    (lastGenerate.called /\ lastGenerate.op = "generateShortCode") =>
        LET g == lastGenerate
            o == lastGenerate.outcome
        IN  /\ o.generated \in 1..10
            /\ ~o.threw =>
                  /\ o.code = g.stream[o.generated]
                  /\ g.existingCodes.given => o.code \notin g.existingCodes.value
                  /\ \A k \in 1..(o.generated - 1) :
                        g.existingCodes.given /\ g.stream[k] \in g.existingCodes.value
            /\ o.threw =>
                  /\ g.existingCodes.given
                  /\ o.generated = 10
                  /\ Drawn(g) \subseteq g.existingCodes.value
            /\ ~g.existingCodes.given => ~o.threw /\ o.generated = 1

\* C29 witness: nine drawn codes were members and the tenth, which was not, was
\* returned.
C29_Witness ==
    /\ lastGenerate.called
    /\ lastGenerate.op = "generateShortCode"
    /\ ~lastGenerate.outcome.threw
    /\ lastGenerate.outcome.generated = 10
    /\ lastGenerate.existingCodes.value # {}

\* C29 witness of the other outcome: ten drawn codes were members and the call threw.
C29_Exhausted ==
    /\ lastGenerate.called
    /\ lastGenerate.op = "generateShortCode"
    /\ lastGenerate.outcome.threw

\* A Storage call of submission s fails in this step, and not on the uniqueness of
\* the short code.
StorageFails(s) ==
    /\ thrown[s] = NoError
    /\ thrown'[s].name = "DatabaseError"
    /\ thrown'[s].cause # "23505"

\* C26: when a Storage call of a submission (the existence check or the insert) fails
\* for a reason other than the uniqueness of the short code, the submission ends with
\* the error at once: it makes no further call, then or later, and stores no record.
C26_StorageFailureEndsSubmission ==
    [][\A s \in Subs :
          /\ StorageFails(s) =>
                /\ pc[s] \in {"exists", "store"}
                /\ pc'[s] = "done"
                /\ resp'[s] = InternalError
                /\ calls'[s] = calls[s]
                /\ urls' = urls
          /\ pc[s] = "done" =>
                pc'[s] = "done" /\ calls'[s] = calls[s] /\ resp'[s] = resp[s]]_vars

\* C26 witness: the insert of one submission failed on a lost connection and the
\* submission ended with the error, the table as it was.
C26_Witness ==
    \E s \in Subs :
        /\ pc[s] = "done"
        /\ thrown[s].name = "DatabaseError"
        /\ thrown[s].cause = "08006"
        /\ "storeUrl" \in calls[s]
        /\ resp[s].status = 500
        /\ urls = <<>>

\* The payment claim of request r is missing, malformed or rejected by the verifier.
PaymentFails(r) ==
    \/ r.header.kind # "object"
    \/ ~verifyPayment(DecodePaymentHeader(r.header)).isValid

\* C27: a submission that ended is answered 400 when its URL is missing or fails
\* validation, 402 when its URL is accepted and its payment claim is missing,
\* malformed or rejected by the verifier, 409 or 500 when the codes were exhausted,
\* and 200 only when the URL is accepted and the payment claim is approved.
C27_StatusByOutcome ==
    \A s \in Subs :
        pc[s] = "done" =>
            /\ ~UrlAccepted(req[s]) => resp[s].status = 400
            /\ (UrlAccepted(req[s]) /\ PaymentFails(req[s])) => resp[s].status = 402
            /\ thrown[s] = GenerationError => resp[s].status \in {409, 500}
            /\ resp[s].status = 200 => UrlAccepted(req[s]) /\ ~PaymentFails(req[s])

\* The header of request r does not decode: no base64 of JSON, or the JSON null.
Undecodable(r) == r.header.kind \in {"garbage", "null"}

CheckOrder ==
    <<"ABSENT", "MISSING_FIELDS", "INVALID_NETWORK", "INVALID_ASSET", "AMOUNT_TOO_LOW",
      "AMOUNT_TOO_HIGH", "INVALID_TX_HASH", "INVALID_PAYER_ADDRESS">>
FailsCheck(k, d) ==
    CASE k = 1 -> d.type # "object"
      [] k = 2 -> \E v \in {d.txHash, d.creatorAddress, d.amount, d.asset, d.network} :
                     v \in {Undefined, Null, ""}
      [] k = 3 -> d.network # "base-sepolia"
      [] k = 4 -> ToLowerCase(d.asset) # ToLowerCase(USDC_CONTRACT_ADDRESS)
      [] k = 5 -> NumLess(parseInt(d.amount), [nan |-> FALSE, val |-> 1000])
      [] k = 6 -> NumGreater(parseInt(d.amount), [nan |-> FALSE, val |-> 10000])
      [] k = 7 -> ~IsHex0x(d.txHash, 64)
      [] k = 8 -> ~IsHex0x(d.creatorAddress, 40)
FailedChecks(d) == {k \in DOMAIN CheckOrder : FailsCheck(k, d)}
EarliestFailure(d) ==
    CHOOSE k \in FailedChecks(d) : \A j \in FailedChecks(d) : k <= j

\* C30: verifyPayment accepts a claim that fails none of its checks and rejects any
\* other with the reason of the earliest check it fails, in the order absent claim,
\* missing field, network, asset (compared without regard to case), amount too low,
\* amount too high, transaction hash, payer address.
C30_EarliestReasonWins ==
    lastVerify.called =>
        IF FailedChecks(lastVerify.paymentData) = {}
        THEN lastVerify.result.isValid
        ELSE /\ ~lastVerify.result.isValid
             /\ VerifierReason(lastVerify.result) =
                   IF EarliestFailure(lastVerify.paymentData) = 1 THEN "MISSING_FIELDS"
                   ELSE CheckOrder[EarliestFailure(lastVerify.paymentData)]

\* The same for claims whose asset is a string: a state the order holds in.
C30_StringAssetsOrdered ==
    (lastVerify.called /\ IsString(lastVerify.paymentData.asset)) => C30_EarliestReasonWins

\* The string without the blanks at its ends, and whether it holds nothing else.
OnlyBlanks(u) == \A i \in 1..Len(u) : IsBlank(CharAt(u, i))
Trimmed(u) ==
    LET I == {i \in 1..Len(u) : ~IsBlank(CharAt(u, i))}
    IN  IF I = {} THEN ""
        ELSE SubSeq(u, CHOOSE i \in I : \A j \in I : i <= j,
                       CHOOSE i \in I : \A j \in I : i >= j)

\* The checks of the validator in their order, and whether the input u, parsed to p
\* once trimmed, fails check k.
UrlCheckOrder ==
    <<"URL_TOO_LONG", "URL_EMPTY", "INVALID_FORMAT", "INVALID_PROTOCOL",
      "BLOCKED_HOSTNAME", "PRIVATE_IP", "SHORTENER_CHAIN", "UNSAFE_PROTOCOL",
      "PATH_TOO_LONG", "QUERY_TOO_LONG">>
FailsUrlCheck(k, u, p) ==
    CASE k = 1 -> Len(u) > 2048
      [] k = 2 -> OnlyBlanks(u)
      [] k = 3 -> ~p.ok
      [] k = 4 -> p.ok /\ p.protocol \notin {"http:", "https:"}
      [] k = 5 -> p.ok /\ ToLowerCase(p.hostname) \in BLOCKED_HOSTNAMES
      [] k = 6 -> p.ok /\ isPrivateOrLocalIP(ToLowerCase(p.hostname))
      [] k = 7 -> p.ok /\ isShortenerDomain(ToLowerCase(p.hostname))
      [] k = 8 -> p.ok /\ p.protocol \in {"data:", "javascript:"}
      [] k = 9 -> p.ok /\ Len(p.pathname) > 1000
      [] k = 10 -> p.ok /\ Len(p.search) > 1000
FailedUrlChecks(u, p) == {k \in DOMAIN UrlCheckOrder : FailsUrlCheck(k, u, p)}
EarliestUrlFailure(u, p) ==
    CHOOSE k \in FailedUrlChecks(u, p) : \A j \in FailedUrlChecks(u, p) : k <= j
ExpectedVerdict(u, p) ==
    IF FailedUrlChecks(u, p) = {} THEN "" ELSE UrlCheckOrder[EarliestUrlFailure(u, p)]

\* C31: validateUrl accepts an input exactly when it fails none of its checks and
\* rejects any other with the code of the earliest check it fails, in the order
\* URL_TOO_LONG (the raw length, blanks included), URL_EMPTY, INVALID_FORMAT,
\* INVALID_PROTOCOL, BLOCKED_HOSTNAME, PRIVATE_IP, SHORTENER_CHAIN, UNSAFE_PROTOCOL,
\* PATH_TOO_LONG, QUERY_TOO_LONG.
C31_EarliestCheckWins ==
    lastValidate.called =>
        LET expected ==
                ExpectedVerdict(lastValidate.urlString,
                                ParseUrl(Trimmed(lastValidate.urlString)))
        IN  /\ lastValidate.result.isValid <=> expected = ""
            /\ ~lastValidate.result.isValid => lastValidate.result.code = expected

\* C31 witness: an input that fails three checks (blocked host name, long path under
\* a scheme that is not allowed) was rejected for the earliest of them.
C31_Witness ==
    /\ lastValidate.called
    /\ lastValidate.urlString = UrlFtpLongPath
    /\ lastValidate.result.code = "INVALID_PROTOCOL"

\* The table holds an active record under the code.
ActiveRecord(code) ==
    \E i \in DOMAIN urls : urls[i].short_code = code /\ urls[i].is_active
\* The table holds a retired record under the code.
RetiredRecord(code) ==
    \E i \in DOMAIN urls : urls[i].short_code = code /\ ~urls[i].is_active

\* What holds of every redirect request at any time: a 301 goes to the original URL
\* of the record the lookup returned, which is stored under the requested code; a 404
\* comes without a record and without a click row.
RedirectOutcomes ==
    \A v \in Visitors :
        /\ visits[v].status = 301 =>
              /\ Len(visits[v].shortCode) = 8
              /\ \E i \in DOMAIN urls :
                    /\ urls[i].id = visits[v].urlRecord.id
                    /\ urls[i].short_code = visits[v].shortCode
                    /\ urls[i].original_url = visits[v].location
        /\ visits[v].status = 404 =>
              visits[v].urlRecord = NoRow /\ visits[v].clickId = 0
        /\ Len(visits[v].shortCode) # 8 => visits[v].pc \in {"idle", "done"}
        /\ visits[v].urlRecord # NoRow => visits[v].urlRecord.is_active

\* What holds of every step: a request with a code of another length is answered 404
\* at once; a lookup that finds no active record ends the request with 404 (500 if
\* the query failed); both leave the click rows and the table as they are, and an
\* answered request does nothing more.
RedirectSteps ==
    \A v \in Visitors :
        /\ (visits[v].pc = "idle" /\ visits'[v].pc # "idle"
                /\ Len(visits'[v].shortCode) # 8) =>
              /\ visits'[v].pc = "done" /\ visits'[v].status = 404
              /\ clicks' = clicks /\ urls' = urls
        /\ (visits[v].pc = "getUrl" /\ visits'[v] # visits[v]
                /\ ~ActiveRecord(visits[v].shortCode)) =>
              /\ visits'[v].pc = "done" /\ visits'[v].status \in {404, 500}
              /\ clicks' = clicks /\ urls' = urls
        /\ visits[v].pc = "done" => visits'[v] = visits[v]

Incremented(code) ==
    {v \in Visitors : visits[v].status = 301 /\ visits[v].shortCode = code}

\* A call of incrementAccessCount by request v returns or throws in this step.
IncrementEnds(v) == visits[v].pc = "increment" /\ visits'[v].pc = "done"

\* C34: however the calls interleave, the click count of a record is the number of
\* incrementAccessCount calls for its code that succeeded; a call succeeds only on an
\* active record and adds one to that record alone, and a call that fails (no active
\* record under the code, or a failed query) changes no count.
C34_IncrementsNotLost ==
    /\ [](\A i \in DOMAIN urls :
             urls[i].click_count = Cardinality(Incremented(urls[i].short_code)))
    /\ [][\A v \in Visitors :
             IncrementEnds(v) =>
                 IF visits'[v].status = 301
                 THEN /\ ActiveRecord(visits[v].shortCode)
                      /\ \A i \in DOMAIN urls :
                            urls'[i].click_count =
                                IF urls[i].short_code = visits[v].shortCode
                                THEN urls[i].click_count + 1
                                ELSE urls[i].click_count
                 ELSE urls' = urls]_vars

\* C34 witness: two calls for one code succeeded and its count is 2.
C34_Witness ==
    \E i \in DOMAIN urls :
        /\ urls[i].click_count = 2
        /\ Cardinality(Incremented(urls[i].short_code)) = 2

\* C34 witness of the failing call: the record was retired between the lookup and
\* the increment, the call failed and the count is unchanged.
C34_FailedIncrement ==
    \E v \in Visitors :
        /\ visits[v].status = 500
        /\ visits[v].clickId # 0
        /\ RetiredRecord(visits[v].shortCode)
        /\ \A i \in DOMAIN urls : urls[i].click_count = 0

\* The click rows recorded for the record with the given id.
ClicksOf(urlId) == {k \in DOMAIN clicks : clicks[k].url_id = urlId}

\* The counts, the click rows and the 301 responses agree.
ClickAccounts ==
    /\ \A i \in DOMAIN urls :
          /\ urls[i].click_count <= Cardinality(ClicksOf(urls[i].id))
          /\ Cardinality({v \in Visitors : /\ visits[v].status = 301
                                            /\ visits[v].urlRecord.id = urls[i].id})
                = urls[i].click_count
    /\ \A v \in Visitors :
          visits[v].status = 301 =>
              /\ visits[v].clickId \in ClicksOf(visits[v].urlRecord.id)
              /\ \E j \in DOMAIN urls :
                    urls[j].id = visits[v].urlRecord.id /\ urls[j].click_count >= 1

\* C35: with redirect requests and retirements interleaved, a count grows only in
\* the step of a request whose click row for that record is already in the table,
\* and that step sends the 301; so the count of a record never exceeds the number of
\* its click rows, and the 301 responses for a code are as many as its count grew.
C35_ClickBeforeCount ==
    /\ []ClickAccounts
    /\ [][\A i \in DOMAIN urls :
             urls'[i].click_count # urls[i].click_count =>
                 \E v \in Visitors :
                     /\ visits[v].pc = "increment"
                     /\ visits[v].clickId \in ClicksOf(urls[i].id)
                     /\ visits[v].status = 0
                     /\ visits'[v].status = 301
                     /\ urls'[i].click_count = urls[i].click_count + 1]_vars

\* C35 witness: two click rows were recorded for a record, one request got its 301
\* and the other failed at the increment because the record was retired in between.
C35_Witness ==
    \E i \in DOMAIN urls :
        /\ urls[i].click_count = 1
        /\ Cardinality(ClicksOf(urls[i].id)) = 2
        /\ \E v, w \in Visitors : visits[v].status = 301 /\ visits[w].status = 500

\* Some record, active or retired, is stored under the code.
EverStored(code) == \E i \in DOMAIN urls : urls[i].short_code = code

C33_StoredUnderFreshCode ==
    \E s \in Subs :
        /\ resp[s].status = 200
        /\ \E i \in DOMAIN urls :
              /\ ~urls[i].is_active
              /\ urls[i].short_code # resp[s].shortCode
              /\ i < Len(urls)

\* A request of the client is handled in this step.
Handled(ip) ==
    /\ limiter'.now = limiter.now
    /\ limiter' # limiter
    /\ limiter'.last.ip = ip

\* C36: of the requests of one client at most 100 pass in one window of 15 minutes:
\* the first request of a window sets count to 1 and resetTime to now plus the
\* window, every request that passes adds one to count, a request that finds count
\* at 100 or more before resetTime is answered 429 and changes neither count nor
\* resetTime, and the first request after resetTime starts a new window.
C36_AtMostHundredPerWindow ==
    /\ [](\A ip \in ClientIps :
             limiter.store[ip].present =>
                 /\ limiter.store[ip].count \in 1..100
                 /\ limiter.store[ip].resetTime <= limiter.now + 900000)
    /\ [][\A ip \in ClientIps :
             /\ Handled(ip) =>
                   LET old == limiter.store[ip]
                       new == limiter'.store[ip]
                   IN  IF ~old.present \/ limiter.now > old.resetTime
                       THEN /\ limiter'.last.passed
                            /\ new = ClientData(1, limiter.now + 900000)
                       ELSE IF old.count >= 100
                       THEN /\ ~limiter'.last.passed
                            /\ limiter'.last.status = 429
                            /\ new = old
                       ELSE /\ limiter'.last.passed
                            /\ new = ClientData(old.count + 1, old.resetTime)
             /\ ~Handled(ip) => limiter'.store[ip] = limiter.store[ip]]_vars

\* C36 witness: the 101st request of a window was answered 429 at the very end of
\* the window, count staying at 100.
C36_Witness ==
    \E ip \in ClientIps :
        /\ limiter.last = TooMany(ip, 0)
        /\ limiter.store[ip].count = 100
        /\ limiter.now = limiter.store[ip].resetTime

\* C36 witness of the new window: after a full window a request passed and count is 1
\* again.
C36_NewWindow ==
    \E ip \in ClientIps :
        /\ limiter.last = Passed(ip)
        /\ limiter.store[ip].count = 1
        /\ limiter.windows = 2
        /\ limiter.now > 900000

\* Call k of executeTransaction is over.
Ended(k) == txn.runs[k].outcome # "" /\ (txn.run > k \/ txn.pc = "idle")

\* C37: a call of executeTransaction that got its client ends its transaction with
\* a COMMIT that succeeded or with a ROLLBACK that succeeded, never both and never
\* neither, and has released the client exactly once; a failed call has thrown an
\* error and nothing its callback wrote is pending in the session or ever committed.
C37_CommitXorRollback ==
    \A k \in Runs :
        /\ (Ended(k) /\ txn.runs[k].connected) =>
              /\ txn.runs[k].commitOk # txn.runs[k].rollbackOk
              /\ txn.runs[k].commitOk <=> txn.runs[k].outcome = "returned"
              /\ txn.runs[k].released = 1
        /\ txn.runs[k].released <= 1
        /\ (Ended(k) /\ txn.runs[k].outcome = "threw") =>
              /\ txn.runs[k].error # ""
              /\ k \notin txn.committed
              /\ k \notin txn.pending

\* The part of C37 that holds: a call that got its client has released it exactly
\* once when it is over, a ROLLBACK is sent exactly when no COMMIT succeeded, and a
\* failed call has thrown an error.
C37_ReleasedOnce ==
    \A k \in Runs :
        /\ (Ended(k) /\ txn.runs[k].connected) =>
              /\ txn.runs[k].commitOk # txn.runs[k].rollbackSent
              /\ txn.runs[k].released = 1
        /\ txn.runs[k].released <= 1
        /\ (Ended(k) /\ ~txn.runs[k].commitOk) => txn.runs[k].error # ""

\* The writes of a failed callback are committed by the next call.
C37_LateCommit ==
    \E k \in Runs : txn.runs[k].outcome = "threw" /\ k \in txn.committed


\* The versions of the list instance r was called with.
ListedVersions(r) ==
    {migr.rn[r].migrations[k].version : k \in DOMAIN migr.rn[r].migrations}

\* What holds of the migrations at every moment.
MigrationAccounts ==
    /\ migr.applied = migr.schema
    /\ \A v \in Versions :
          /\ migr.commits[v] <= 1
          /\ v \in migr.applied <=> migr.commits[v] = 1
    /\ \A r \in Instances :
          /\ migr.rn[r].called \cap migr.rn[r].appliedMigrations = {}
          /\ migr.rn[r].pc \in {"idle", "read", "loop", "begin"} =>
                ~migr.rn[r].up /\ ~migr.rn[r].row
          /\ (migr.rn[r].pc = "idle" /\ migr.rn[r].outcome = "returned") =>
                ListedVersions(r) \subseteq migr.applied
          /\ (migr.rn[r].pc = "idle" /\ migr.rn[r].outcome = "threw") =>
                migr.rn[r].error # ""

\* Only a COMMIT that succeeds changes the schema or schema_migrations, and it adds
\* the version to both, a version that was in neither.
MigrationSteps ==
    (migr'.applied # migr.applied \/ migr'.schema # migr.schema) =>
        \E r \in Instances :
            /\ migr.rn[r].pc = "commit"
            /\ migr'.rn[r].pc = "finally"
            /\ ~migr'.rn[r].failed
            /\ Migration(r).version \notin migr.applied \cup migr.schema
            /\ migr'.applied = migr.applied \cup {Migration(r).version}
            /\ migr'.schema = migr.schema \cup {Migration(r).version}

\* The loop of some instance is at a version that is recorded in schema_migrations
\* and calls applyMigration with it.
AppliesRecorded ==
    \E r \in Instances :
        /\ migr.rn[r].pc = "loop"
        /\ migr.rn[r].i <= Len(migr.rn[r].migrations)
        /\ Migration(r).version \in migr.applied
        /\ migr'.rn[r].called # migr.rn[r].called

\* C38: runMigrations applies each version at most once and is idempotent: a
\* version that is recorded in schema_migrations when the loop reaches it is
\* skipped, the schema changes of a version are committed at most once and exactly
\* when its row is recorded, and a migration that fails changes neither the schema
\* nor schema_migrations.
C38_RecordedIsSkipped ==
    []MigrationAccounts /\ [][MigrationSteps /\ ~AppliesRecorded]_vars

\* What holds of C38: the schema changes of a version are committed at most once,
\* exactly when its row is recorded; applyMigration is never called with a version
\* that runMigrations read from schema_migrations before its loop; a call that
\* returns leaves all its versions recorded; and only a successful COMMIT changes
\* the schema or schema_migrations, both at once.
C38_MigrationsAppliedOnce == []MigrationAccounts /\ [][MigrationSteps]_vars

\* applyMigration was called with a version that was recorded after runMigrations
\* had read schema_migrations, and runMigrations has thrown.
C38_StaleRead ==
    \E r \in Instances :
        /\ migr.rn[r].pc = "idle"
        /\ migr.rn[r].outcome = "threw"
        /\ migr.rn[r].migrations = <<[version |-> "001", name |-> "m001"],
                                     [version |-> "001", name |-> "m001"]>>
        /\ migr.rn[r].i = 2
        /\ migr.commits["001"] = 1
        /\ \A q \in Instances \ {r} : migr.rn[q].run = 0

\* A second call of runMigrations has skipped version 001 and returned, and the
\* other instance's attempt to apply that version has failed.
C38_Witness ==
    \E r \in Instances : \E q \in Instances \ {r} :
        /\ migr.rn[r].run = 2
        /\ migr.rn[r].pc = "idle"
        /\ migr.rn[r].outcome = "returned"
        /\ migr.rn[r].called = {}
        /\ "001" \in migr.rn[r].appliedMigrations
        /\ migr.rn[q].outcome = "threw"
        /\ migr.rn[q].error = "Failed to apply migration"
        /\ "001" \in migr.rn[q].called

\* A migration failed, and nothing of it is in the schema or in schema_migrations.
C38_FailedMigration ==
    \E r \in Instances :
        /\ migr.rn[r].outcome = "threw"
        /\ migr.rn[r].pc = "idle"
        /\ "002" \in migr.rn[r].called
        /\ "002" \notin migr.applied \cup migr.schema

====
